---- MODULE Spec2Model ----
(***************************************************************************)
(* The translation-and-speech relay of the medical translator: the         *)
(* /api/translate and /api/audio handlers of the server that supports demo *)
(* (offline) mode, with the phrase tables of the offline translator and    *)
(* the voice-fallback cascade of live synthesis.                           *)
(*                                                                         *)
(* A JavaScript string is modelled as the sequence of its UTF-16 code      *)
(* units, so that Len is String.prototype.length and the character tests   *)
(* of trim(), toLowerCase() and the regular expression \b are arithmetic   *)
(* on code units.  The comments beside each literal give the text.         *)
(***************************************************************************)
EXTENDS Integers, Sequences, FiniteSets, TLC

VARIABLES
  server,         \* which server file runs: the one with demo mode, or the live-only one
  env,            \* process.env after dotenv.config(): the two required variables
  startup,        \* the steps of startup completed so far, in order
  exitCode,       \* the argument of process.exit, or Running
  DEMO_MODE,      \* const DEMO_MODE = missingEnvVars.length > 0, fixed at startup
  pc,             \* where the handler of the current request stands
  req,            \* the request being handled: endpoint and body
  res,            \* the responses sent for the current request, in order
  voiceIndex,     \* position of the for..of loop over config.voiceOptions
  lastError,      \* let lastError
  audioGenerated, \* let audioGenerated
  openaiCalls,    \* calls of openai.chat.completions.create made for this request
  openaiRequest,  \* the messages of the model call of this request
  openaiReply,    \* how the model call of this request settled
  ttsCalls,       \* calls of ttsClient.synthesizeSpeech made for this request, in order
  inFlight,       \* outbound calls issued and not yet settled
  log,            \* what the offline scan wrote to the console for this request
  earlier,        \* the request handled before this one and what it was answered
  concurrent,     \* a request that arrived while this one awaits, and its answer
  inputText,            \* conversation client: const [inputText, setInputText]
  selectedLanguage,     \* const [selectedLanguage, setSelectedLanguage]
  activeSpeaker,        \* const [currentSpeaker, setCurrentSpeaker]
  sessionStarted,       \* const [sessionStarted, setSessionStarted]
  isTranslating,        \* const [isTranslating, setIsTranslating]
  isGeneratingAudio,    \* const [isGeneratingAudio, setIsGeneratingAudio]
  uiError,              \* const [error, setError]
  conversationHistory,  \* const [conversationHistory, setConversationHistory]
  audioCache,           \* const [audioCache, setAudioCache]: message id -> audio
  playingMessageId,     \* const [playingMessageId, setPlayingMessageId], 0 for null
  audioRef,             \* audioRef.current: what is being played, or nothing
  utterance,            \* what speechSynthesis speaks, or nothing
  clock,                \* the last value Date.now() gave
  fetches,              \* fetch calls of the client that have not settled
  timers,               \* setTimeout callbacks that have not run
  session,              \* how many sessions have been ended with End Session
  origin                \* message id -> the session its translate request was sent in

\* What startup settles, and what is remembered of other requests.
processVars == <<server, env, startup, exitCode>>
historyVars == <<earlier, concurrent>>

\* The state of the conversation client (React state, refs, pending fetches
\* and timers), and what is recorded of the sessions.
clientVars == <<inputText, selectedLanguage, activeSpeaker, sessionStarted, isTranslating,
                isGeneratingAudio, uiError, conversationHistory, audioCache,
                playingMessageId, audioRef, utterance, clock, fetches, timers, session,
                origin>>

vars == <<processVars, DEMO_MODE, pc, req, res, voiceIndex, lastError, audioGenerated,
          openaiCalls, openaiRequest, openaiReply, ttsCalls, inFlight, log, historyVars,
          clientVars>>

----------------------------------------------------------------------------
(* JavaScript values.  Every value is a record of the same shape, so that   *)
(* values of different types can be compared.                               *)

Str(s) == [type |-> "string", chars |-> s]
Undefined == [type |-> "undefined", chars |-> <<>>]
Null == [type |-> "null", chars |-> <<>>]
\* A function object, such as Object.prototype.toString.
FunctionValue == [type |-> "function", chars |-> <<>>]
\* A plain object, such as Object.prototype itself.
ObjectValue == [type |-> "object", chars |-> <<>>]
\* A non-zero number, such as the 123 of the body {"text": 123}.
NumberValue == [type |-> "number", chars |-> <<>>]

\* ToBoolean: what `!x` and `if (x)` test.
Truthy(v) ==
  CASE v.type = "string" -> v.chars # <<>>
    [] v.type \in {"undefined", "null"} -> FALSE
    [] OTHER -> TRUE

\* JSON.stringify on a property value, as res.json applies it: a property whose
\* value is a function or undefined is left out of the body.
JsonProperty(v) == IF v.type \in {"function", "undefined"} THEN Undefined ELSE v

----------------------------------------------------------------------------
(* String primitives of the runtime, on code-unit sequences.                *)

\* String.prototype.toLowerCase on the code units the model draws its texts
\* from: A-Z map to a-z, every other code unit of the alphabet (digits,
\* punctuation, CJK) is its own lower case.
ToLowerCase(s) == [i \in 1..Len(s) |-> IF s[i] \in 65..90 THEN s[i] + 32 ELSE s[i]]

\* WhiteSpace and LineTerminator code units, which trim() strips.
IsWhiteSpace(c) ==
  c \in {9, 10, 11, 12, 13, 32, 160, 5760, 8232, 8233, 8239, 8287, 12288, 65279}
    \cup (8192..8202)

\* String.prototype.trim.
Trim(s) ==
  IF \A i \in 1..Len(s) : IsWhiteSpace(s[i]) THEN <<>>
  ELSE LET first == CHOOSE i \in 1..Len(s) :
                      ~IsWhiteSpace(s[i]) /\ \A j \in 1..(i - 1) : IsWhiteSpace(s[j])
           last == CHOOSE i \in 1..Len(s) :
                     ~IsWhiteSpace(s[i]) /\ \A j \in (i + 1)..Len(s) : IsWhiteSpace(s[j])
       IN SubSeq(s, first, last)

\* String.prototype.substring(0, n).
Substring0(s, n) == SubSeq(s, 1, IF Len(s) < n THEN Len(s) ELSE n)

\* sub occurs in s starting after offset p (0-based offset).
OccursAt(s, sub, p) ==
  /\ p >= 0
  /\ p + Len(sub) <= Len(s)
  /\ \A i \in 1..Len(sub) : s[p + i] = sub[i]

\* String.prototype.includes.
Includes(s, sub) == \E p \in 0..(Len(s) - Len(sub)) : OccursAt(s, sub, p)

\* The class \w of a regular expression without the u flag.
IsWordChar(c) == c \in (48..57) \cup (65..90) \cup {95} \cup (97..122)

\* The assertion \b at offset p of s (between s[p] and s[p+1]): exactly one of
\* the two neighbours is a word character; outside the string counts as none.
WordBoundaryAt(s, p) ==
  LET before == p >= 1 /\ p <= Len(s) /\ IsWordChar(s[p])
      after == p + 1 >= 1 /\ p + 1 <= Len(s) /\ IsWordChar(s[p + 1])
  IN before # after

\* The phrase tested without the two \b assertions.
RegExpTestWithoutBoundaries(phrase, s) ==
  \E p \in 0..(Len(s) - Len(phrase)) : OccursAt(ToLowerCase(s), ToLowerCase(phrase), p)

\* new RegExp(`\\b${escaped phrase}\\b`, 'i').test(s): the replace() escapes
\* every metacharacter of the phrase, so the phrase is matched literally; the
\* i flag compares letters without case.
RegExpTest(phrase, s) ==
  LET folded == ToLowerCase(s)
      foldedPhrase == ToLowerCase(phrase)
  IN \E p \in 0..(Len(s) - Len(phrase)) :
       /\ OccursAt(folded, foldedPhrase, p)
       /\ WordBoundaryAt(s, p)
       /\ WordBoundaryAt(s, p + Len(phrase))

----------------------------------------------------------------------------
(* Objects built from literals, and property access.                        *)

\* An evaluation of a literal in which the first occurrence of a key keeps
\* its value.
ObjectLiteralKeepingFirstValue(pairs) ==
  LET firsts == SelectSeq([i \in 1..Len(pairs) |-> i],
                          LAMBDA i : \A j \in 1..(i - 1) : pairs[j][1] # pairs[i][1])
  IN [n \in 1..Len(firsts) |->
        [key |-> pairs[firsts[n]][1], value |-> pairs[firsts[n]][2]]]

\* An object literal evaluated: each key keeps the position of its first
\* occurrence and takes the value of its last one.
ObjectLiteral(pairs) ==
  LET firsts == SelectSeq([i \in 1..Len(pairs) |-> i],
                          LAMBDA i : \A j \in 1..(i - 1) : pairs[j][1] # pairs[i][1])
      lastOf(k) == CHOOSE i \in 1..Len(pairs) :
                     /\ pairs[i][1] = k
                     /\ \A j \in (i + 1)..Len(pairs) : pairs[j][1] # k
  IN [n \in 1..Len(firsts) |->
        [key |-> pairs[firsts[n]][1], value |-> pairs[lastOf(pairs[firsts[n]][1])][2]]]


\* Object.entries(o): the own properties in insertion order (no key of the
\* tables is an integer index, so insertion order is the order of the literal).
ObjectEntries(o) == o

\* The names every plain object inherits from Object.prototype.  All are
\* functions or accessors that return one, except __proto__ (the prototype
\* object itself).
ObjectPrototypeFunctions ==
  { <<99, 111, 110, 115, 116, 114, 117, 99, 116, 111, 114>>,  \* constructor
    <<116, 111, 83, 116, 114, 105, 110, 103>>,  \* toString
    <<116, 111, 76, 111, 99, 97, 108, 101, 83, 116, 114, 105, 110, 103>>,  \* toLocaleString
    <<118, 97, 108, 117, 101, 79, 102>>,  \* valueOf
    <<104, 97, 115, 79, 119, 110, 80, 114, 111, 112, 101, 114, 116, 121>>,  \* hasOwnProperty
    <<105, 115, 80, 114, 111, 116, 111, 116, 121, 112, 101, 79, 102>>,  \* isPrototypeOf
    <<112, 114, 111, 112, 101, 114, 116, 121, 73, 115, 69, 110, 117, 109, 101, 114, 97, 98,
      108, 101>>,  \* propertyIsEnumerable
    <<95, 95, 100, 101, 102, 105, 110, 101, 71, 101, 116, 116, 101, 114, 95, 95>>,  \* __defineGetter__
    <<95, 95, 100, 101, 102, 105, 110, 101, 83, 101, 116, 116, 101, 114, 95, 95>>,  \* __defineSetter__
    <<95, 95, 108, 111, 111, 107, 117, 112, 71, 101, 116, 116, 101, 114, 95, 95>>,  \* __lookupGetter__
    <<95, 95, 108, 111, 111, 107, 117, 112, 83, 101, 116, 116, 101, 114, 95, 95>> } \* __lookupSetter__

\* '__proto__'
ProtoKey == <<95, 95, 112, 114, 111, 116, 111, 95, 95>>

\* o[key] on an object created by a literal: an own property if there is one,
\* else the property inherited from Object.prototype, else undefined.
GetProperty(o, key) ==
  LET own == {i \in 1..Len(o) : o[i].key = key}
  IN IF own # {} THEN Str(o[CHOOSE i \in own : TRUE].value)
     ELSE IF key \in ObjectPrototypeFunctions THEN FunctionValue
     ELSE IF key = ProtoKey THEN ObjectValue
     ELSE Undefined

----------------------------------------------------------------------------
(* The phrase tables of demo mode.                                          *)

\* The object literal mockTranslations.mandarin, one <<key, value>> pair per source
\* line, keys and values as sequences of UTF-16 code units.
mockTranslationsMandarinLiteral ==
  <<
    \* line 132: 'hello': '你好'
    <<<<104, 101, 108, 108, 111>>, <<20320, 22909>>>>,
    \* line 133: 'hi': '您好'
    <<<<104, 105>>, <<24744, 22909>>>>,
    \* line 134: 'how are you': '您好吗？'
    <<<<104, 111, 119, 32, 97, 114, 101, 32, 121, 111, 117>>, <<24744, 22909, 21527, 65311>>>>,
    \* line 135: 'how are you feeling': '您感觉怎么样？'
    <<<<104, 111, 119, 32, 97, 114, 101, 32, 121, 111, 117, 32, 102, 101, 101, 108, 105, 110, 103>>, <<24744, 24863, 35273, 24590, 20040, 26679, 65311>>>>,
    \* line 136: 'what is your name': '您叫什么名字？'
    <<<<119, 104, 97, 116, 32, 105, 115, 32, 121, 111, 117, 114, 32, 110, 97, 109, 101>>, <<24744, 21483, 20160, 20040, 21517, 23383, 65311>>>>,
    \* line 137: 'how do you feel': '您感觉怎么样？'
    <<<<104, 111, 119, 32, 100, 111, 32, 121, 111, 117, 32, 102, 101, 101, 108>>, <<24744, 24863, 35273, 24590, 20040, 26679, 65311>>>>,
    \* line 138: 'where does it hurt': '哪里疼？'
    <<<<119, 104, 101, 114, 101, 32, 100, 111, 101, 115, 32, 105, 116, 32, 104, 117, 114, 116>>, <<21738, 37324, 30140, 65311>>>>,
    \* line 139: 'where is the pain': '疼痛在哪里？'
    <<<<119, 104, 101, 114, 101, 32, 105, 115, 32, 116, 104, 101, 32, 112, 97, 105, 110>>, <<30140, 30171, 22312, 21738, 37324, 65311>>>>,
    \* line 140: 'can you tell me where the pain is': '您能告诉我疼痛在哪里吗？'
    <<<<99, 97, 110, 32, 121, 111, 117, 32, 116, 101, 108, 108, 32, 109, 101, 32, 119, 104, 101, 114, 101, 32, 116, 104, 101, 32, 112, 97, 105, 110, 32, 105, 115>>, <<24744, 33021, 21578, 35785, 25105, 30140, 30171, 22312, 21738, 37324, 21527, 65311>>>>,
    \* line 141: 'what kind of pain': '什么样的疼痛？'
    <<<<119, 104, 97, 116, 32, 107, 105, 110, 100, 32, 111, 102, 32, 112, 97, 105, 110>>, <<20160, 20040, 26679, 30340, 30140, 30171, 65311>>>>,
    \* line 142: 'when did this start': '这是什么时候开始的？'
    <<<<119, 104, 101, 110, 32, 100, 105, 100, 32, 116, 104, 105, 115, 32, 115, 116, 97, 114, 116>>, <<36825, 26159, 20160, 20040, 26102, 20505, 24320, 22987, 30340, 65311>>>>,
    \* line 143: 'when did this pain start': '这个疼痛是什么时候开始的？'
    <<<<119, 104, 101, 110, 32, 100, 105, 100, 32, 116, 104, 105, 115, 32, 112, 97, 105, 110, 32, 115, 116, 97, 114, 116>>, <<36825, 20010, 30140, 30171, 26159, 20160, 20040, 26102, 20505, 24320, 22987, 30340, 65311>>>>,
    \* line 144: 'how long have you had this': '您有这个症状多长时间了？'
    <<<<104, 111, 119, 32, 108, 111, 110, 103, 32, 104, 97, 118, 101, 32, 121, 111, 117, 32, 104, 97, 100, 32, 116, 104, 105, 115>>, <<24744, 26377, 36825, 20010, 30151, 29366, 22810, 38271, 26102, 38388, 20102, 65311>>>>,
    \* line 145: 'on a scale of 1 to 10': '从1到10分'
    <<<<111, 110, 32, 97, 32, 115, 99, 97, 108, 101, 32, 111, 102, 32, 49, 32, 116, 111, 32, 49, 48>>, <<20174, 49, 21040, 49, 48, 20998>>>>,
    \* line 146: 'take this medication': '服用这个药物'
    <<<<116, 97, 107, 101, 32, 116, 104, 105, 115, 32, 109, 101, 100, 105, 99, 97, 116, 105, 111, 110>>, <<26381, 29992, 36825, 20010, 33647, 29289>>>>,
    \* line 147: 'take this medication twice daily': '每天服用这个药物两次'
    <<<<116, 97, 107, 101, 32, 116, 104, 105, 115, 32, 109, 101, 100, 105, 99, 97, 116, 105, 111, 110, 32, 116, 119, 105, 99, 101, 32, 100, 97, 105, 108, 121>>, <<27599, 22825, 26381, 29992, 36825, 20010, 33647, 29289, 20004, 27425>>>>,
    \* line 148: 'take this medication twice daily with food': '每天随餐服用这个药物两次'
    <<<<116, 97, 107, 101, 32, 116, 104, 105, 115, 32, 109, 101, 100, 105, 99, 97, 116, 105, 111, 110, 32, 116, 119, 105, 99, 101, 32, 100, 97, 105, 108, 121, 32, 119, 105, 116, 104, 32, 102, 111, 111, 100>>, <<27599, 22825, 38543, 39184, 26381, 29992, 36825, 20010, 33647, 29289, 20004, 27425>>>>,
    \* line 149: 'with food': '随餐服用'
    <<<<119, 105, 116, 104, 32, 102, 111, 111, 100>>, <<38543, 39184, 26381, 29992>>>>,
    \* line 150: 'before meals': '饭前服用'
    <<<<98, 101, 102, 111, 114, 101, 32, 109, 101, 97, 108, 115>>, <<39277, 21069, 26381, 29992>>>>,
    \* line 151: 'after meals': '饭后服用'
    <<<<97, 102, 116, 101, 114, 32, 109, 101, 97, 108, 115>>, <<39277, 21518, 26381, 29992>>>>,
    \* line 152: 'thank you': '谢谢'
    <<<<116, 104, 97, 110, 107, 32, 121, 111, 117>>, <<35874, 35874>>>>,
    \* line 153: 'goodbye': '再见'
    <<<<103, 111, 111, 100, 98, 121, 101>>, <<20877, 35265>>>>,
    \* line 154: 'please sit down': '请坐'
    <<<<112, 108, 101, 97, 115, 101, 32, 115, 105, 116, 32, 100, 111, 119, 110>>, <<35831, 22352>>>>,
    \* line 155: 'open your mouth': '请张开嘴'
    <<<<111, 112, 101, 110, 32, 121, 111, 117, 114, 32, 109, 111, 117, 116, 104>>, <<35831, 24352, 24320, 22068>>>>,
    \* line 156: 'take a deep breath': '请深呼吸'
    <<<<116, 97, 107, 101, 32, 97, 32, 100, 101, 101, 112, 32, 98, 114, 101, 97, 116, 104>>, <<35831, 28145, 21628, 21560>>>>
  >>

\* The object literal mockTranslations.cantonese.
mockTranslationsCantoneseLiteral ==
  <<
    \* line 159: 'hello': '你好'
    <<<<104, 101, 108, 108, 111>>, <<20320, 22909>>>>,
    \* line 160: 'hi': '你好'
    <<<<104, 105>>, <<20320, 22909>>>>,
    \* line 161: 'how are you': '你好嗎？'
    <<<<104, 111, 119, 32, 97, 114, 101, 32, 121, 111, 117>>, <<20320, 22909, 21966, 65311>>>>,
    \* line 162: 'how are you feeling': '你感覺點樣？'
    <<<<104, 111, 119, 32, 97, 114, 101, 32, 121, 111, 117, 32, 102, 101, 101, 108, 105, 110, 103>>, <<20320, 24863, 35258, 40670, 27171, 65311>>>>,
    \* line 163: 'what is your name': '你叫咩名？'
    <<<<119, 104, 97, 116, 32, 105, 115, 32, 121, 111, 117, 114, 32, 110, 97, 109, 101>>, <<20320, 21483, 21673, 21517, 65311>>>>,
    \* line 164: 'how do you feel': '你覺得點樣？'
    <<<<104, 111, 119, 32, 100, 111, 32, 121, 111, 117, 32, 102, 101, 101, 108>>, <<20320, 35258, 24471, 40670, 27171, 65311>>>>,
    \* line 165: 'where does it hurt': '邊度痛？'
    <<<<119, 104, 101, 114, 101, 32, 100, 111, 101, 115, 32, 105, 116, 32, 104, 117, 114, 116>>, <<37002, 24230, 30171, 65311>>>>,
    \* line 166: 'where is the pain': '痛喺邊度？'
    <<<<119, 104, 101, 114, 101, 32, 105, 115, 32, 116, 104, 101, 32, 112, 97, 105, 110>>, <<30171, 21946, 37002, 24230, 65311>>>>,
    \* line 167: 'can you tell me where the pain is': '你可以話我知痛喺邊度嗎？'
    <<<<99, 97, 110, 32, 121, 111, 117, 32, 116, 101, 108, 108, 32, 109, 101, 32, 119, 104, 101, 114, 101, 32, 116, 104, 101, 32, 112, 97, 105, 110, 32, 105, 115>>, <<20320, 21487, 20197, 35441, 25105, 30693, 30171, 21946, 37002, 24230, 21966, 65311>>>>,
    \* line 168: 'what kind of pain': '咩種痛？'
    <<<<119, 104, 97, 116, 32, 107, 105, 110, 100, 32, 111, 102, 32, 112, 97, 105, 110>>, <<21673, 31278, 30171, 65311>>>>,
    \* line 169: 'when did this start': '幾時開始嘅？'
    <<<<119, 104, 101, 110, 32, 100, 105, 100, 32, 116, 104, 105, 115, 32, 115, 116, 97, 114, 116>>, <<24190, 26178, 38283, 22987, 22021, 65311>>>>,
    \* line 170: 'when did this pain start': '呢個痛幾時開始嘅？'
    <<<<119, 104, 101, 110, 32, 100, 105, 100, 32, 116, 104, 105, 115, 32, 112, 97, 105, 110, 32, 115, 116, 97, 114, 116>>, <<21602, 20491, 30171, 24190, 26178, 38283, 22987, 22021, 65311>>>>,
    \* line 171: 'how long have you had this': '你有呢個症狀幾耐？'
    <<<<104, 111, 119, 32, 108, 111, 110, 103, 32, 104, 97, 118, 101, 32, 121, 111, 117, 32, 104, 97, 100, 32, 116, 104, 105, 115>>, <<20320, 26377, 21602, 20491, 30151, 29376, 24190, 32784, 65311>>>>,
    \* line 172: 'on a scale of 1 to 10': '由1到10分'
    <<<<111, 110, 32, 97, 32, 115, 99, 97, 108, 101, 32, 111, 102, 32, 49, 32, 116, 111, 32, 49, 48>>, <<30001, 49, 21040, 49, 48, 20998>>>>,
    \* line 173: 'take this medication': '食呢隻藥'
    <<<<116, 97, 107, 101, 32, 116, 104, 105, 115, 32, 109, 101, 100, 105, 99, 97, 116, 105, 111, 110>>, <<39135, 21602, 38587, 34277>>>>,
    \* line 174: 'take this medication twice daily': '呢隻藥一日食兩次'
    <<<<116, 97, 107, 101, 32, 116, 104, 105, 115, 32, 109, 101, 100, 105, 99, 97, 116, 105, 111, 110, 32, 116, 119, 105, 99, 101, 32, 100, 97, 105, 108, 121>>, <<21602, 38587, 34277, 19968, 26085, 39135, 20841, 27425>>>>,
    \* line 175: 'take this medication twice daily with food': '呢隻藥要一日食兩次，記住要同食物一齊食'
    <<<<116, 97, 107, 101, 32, 116, 104, 105, 115, 32, 109, 101, 100, 105, 99, 97, 116, 105, 111, 110, 32, 116, 119, 105, 99, 101, 32, 100, 97, 105, 108, 121, 32, 119, 105, 116, 104, 32, 102, 111, 111, 100>>, <<21602, 38587, 34277, 35201, 19968, 26085, 39135, 20841, 27425, 65292, 35352, 20303, 35201, 21516, 39135, 29289, 19968, 40778, 39135>>>>,
    \* line 176: 'with food': '同食物一齊食'
    <<<<119, 105, 116, 104, 32, 102, 111, 111, 100>>, <<21516, 39135, 29289, 19968, 40778, 39135>>>>,
    \* line 177: 'before meals': '飯前食'
    <<<<98, 101, 102, 111, 114, 101, 32, 109, 101, 97, 108, 115>>, <<39151, 21069, 39135>>>>,
    \* line 178: 'after meals': '飯後食'
    <<<<97, 102, 116, 101, 114, 32, 109, 101, 97, 108, 115>>, <<39151, 24460, 39135>>>>,
    \* line 179: 'thank you': '多謝'
    <<<<116, 104, 97, 110, 107, 32, 121, 111, 117>>, <<22810, 35613>>>>,
    \* line 180: 'goodbye': '再見'
    <<<<103, 111, 111, 100, 98, 121, 101>>, <<20877, 35211>>>>,
    \* line 181: 'please sit down': '請坐'
    <<<<112, 108, 101, 97, 115, 101, 32, 115, 105, 116, 32, 100, 111, 119, 110>>, <<35531, 22352>>>>,
    \* line 182: 'open your mouth': '請張開口'
    <<<<111, 112, 101, 110, 32, 121, 111, 117, 114, 32, 109, 111, 117, 116, 104>>, <<35531, 24373, 38283, 21475>>>>,
    \* line 183: 'take a deep breath': '請深呼吸'
    <<<<116, 97, 107, 101, 32, 97, 32, 100, 101, 101, 112, 32, 98, 114, 101, 97, 116, 104>>, <<35531, 28145, 21628, 21560>>>>
  >>

\* The object literal mockChineseToEnglish, in source order, duplicate keys included.
mockChineseToEnglishLiteral ==
  <<
    \* line 219: '你好': 'Hello'
    <<<<20320, 22909>>, <<72, 101, 108, 108, 111>>>>,
    \* line 220: '我很好': 'I am fine'
    <<<<25105, 24456, 22909>>, <<73, 32, 97, 109, 32, 102, 105, 110, 101>>>>,
    \* line 221: '我不舒服': 'I don't feel well'
    <<<<25105, 19981, 33298, 26381>>, <<73, 32, 100, 111, 110, 39, 116, 32, 102, 101, 101, 108, 32, 119, 101, 108, 108>>>>,
    \* line 222: '我不好': 'I am not well'
    <<<<25105, 19981, 22909>>, <<73, 32, 97, 109, 32, 110, 111, 116, 32, 119, 101, 108, 108>>>>,
    \* line 223: '我病了': 'I am sick'
    <<<<25105, 30149, 20102>>, <<73, 32, 97, 109, 32, 115, 105, 99, 107>>>>,
    \* line 224: '我感觉不好': 'I don't feel good'
    <<<<25105, 24863, 35273, 19981, 22909>>, <<73, 32, 100, 111, 110, 39, 116, 32, 102, 101, 101, 108, 32, 103, 111, 111, 100>>>>,
    \* line 227: '这里疼': 'It hurts here'
    <<<<36825, 37324, 30140>>, <<73, 116, 32, 104, 117, 114, 116, 115, 32, 104, 101, 114, 101>>>>,
    \* line 228: '那里疼': 'It hurts there'
    <<<<37027, 37324, 30140>>, <<73, 116, 32, 104, 117, 114, 116, 115, 32, 116, 104, 101, 114, 101>>>>,
    \* line 229: '头疼': 'I have a headache'
    <<<<22836, 30140>>, <<73, 32, 104, 97, 118, 101, 32, 97, 32, 104, 101, 97, 100, 97, 99, 104, 101>>>>,
    \* line 230: '头痛': 'I have a headache'
    <<<<22836, 30171>>, <<73, 32, 104, 97, 118, 101, 32, 97, 32, 104, 101, 97, 100, 97, 99, 104, 101>>>>,
    \* line 231: '偏头痛': 'I have a migraine'
    <<<<20559, 22836, 30171>>, <<73, 32, 104, 97, 118, 101, 32, 97, 32, 109, 105, 103, 114, 97, 105, 110, 101>>>>,
    \* line 232: '肚子疼': 'My stomach hurts'
    <<<<32922, 23376, 30140>>, <<77, 121, 32, 115, 116, 111, 109, 97, 99, 104, 32, 104, 117, 114, 116, 115>>>>,
    \* line 233: '胃疼': 'My stomach hurts'
    <<<<32963, 30140>>, <<77, 121, 32, 115, 116, 111, 109, 97, 99, 104, 32, 104, 117, 114, 116, 115>>>>,
    \* line 234: '肚子痛': 'My stomach hurts'
    <<<<32922, 23376, 30171>>, <<77, 121, 32, 115, 116, 111, 109, 97, 99, 104, 32, 104, 117, 114, 116, 115>>>>,
    \* line 235: '喉咙疼': 'My throat hurts'
    <<<<21897, 21657, 30140>>, <<77, 121, 32, 116, 104, 114, 111, 97, 116, 32, 104, 117, 114, 116, 115>>>>,
    \* line 236: '嗓子疼': 'My throat hurts'
    <<<<21971, 23376, 30140>>, <<77, 121, 32, 116, 104, 114, 111, 97, 116, 32, 104, 117, 114, 116, 115>>>>,
    \* line 237: '扁桃体发炎': 'My tonsils are inflamed'
    <<<<25153, 26691, 20307, 21457, 28814>>, <<77, 121, 32, 116, 111, 110, 115, 105, 108, 115, 32, 97, 114, 101, 32, 105, 110, 102, 108, 97, 109, 101, 100>>>>,
    \* line 238: '背疼': 'My back hurts'
    <<<<32972, 30140>>, <<77, 121, 32, 98, 97, 99, 107, 32, 104, 117, 114, 116, 115>>>>,
    \* line 239: '腰疼': 'My lower back hurts'
    <<<<33136, 30140>>, <<77, 121, 32, 108, 111, 119, 101, 114, 32, 98, 97, 99, 107, 32, 104, 117, 114, 116, 115>>>>,
    \* line 240: '脖子疼': 'My neck hurts'
    <<<<33046, 23376, 30140>>, <<77, 121, 32, 110, 101, 99, 107, 32, 104, 117, 114, 116, 115>>>>,
    \* line 241: '肩膀疼': 'My shoulder hurts'
    <<<<32937, 33152, 30140>>, <<77, 121, 32, 115, 104, 111, 117, 108, 100, 101, 114, 32, 104, 117, 114, 116, 115>>>>,
    \* line 242: '胸疼': 'My chest hurts'
    <<<<33016, 30140>>, <<77, 121, 32, 99, 104, 101, 115, 116, 32, 104, 117, 114, 116, 115>>>>,
    \* line 243: '胸口疼': 'My chest hurts'
    <<<<33016, 21475, 30140>>, <<77, 121, 32, 99, 104, 101, 115, 116, 32, 104, 117, 114, 116, 115>>>>,
    \* line 244: '心脏疼': 'My heart hurts'
    <<<<24515, 33039, 30140>>, <<77, 121, 32, 104, 101, 97, 114, 116, 32, 104, 117, 114, 116, 115>>>>,
    \* line 245: '膝盖疼': 'My knee hurts'
    <<<<33181, 30422, 30140>>, <<77, 121, 32, 107, 110, 101, 101, 32, 104, 117, 114, 116, 115>>>>,
    \* line 246: '腿疼': 'My leg hurts'
    <<<<33151, 30140>>, <<77, 121, 32, 108, 101, 103, 32, 104, 117, 114, 116, 115>>>>,
    \* line 247: '脚疼': 'My foot hurts'
    <<<<33050, 30140>>, <<77, 121, 32, 102, 111, 111, 116, 32, 104, 117, 114, 116, 115>>>>,
    \* line 248: '手疼': 'My hand hurts'
    <<<<25163, 30140>>, <<77, 121, 32, 104, 97, 110, 100, 32, 104, 117, 114, 116, 115>>>>,
    \* line 249: '胳膊疼': 'My arm hurts'
    <<<<33011, 33162, 30140>>, <<77, 121, 32, 97, 114, 109, 32, 104, 117, 114, 116, 115>>>>,
    \* line 250: '眼睛疼': 'My eyes hurt'
    <<<<30524, 30555, 30140>>, <<77, 121, 32, 101, 121, 101, 115, 32, 104, 117, 114, 116>>>>,
    \* line 251: '耳朵疼': 'My ear hurts'
    <<<<32819, 26421, 30140>>, <<77, 121, 32, 101, 97, 114, 32, 104, 117, 114, 116, 115>>>>,
    \* line 252: '牙疼': 'I have a toothache'
    <<<<29273, 30140>>, <<73, 32, 104, 97, 118, 101, 32, 97, 32, 116, 111, 111, 116, 104, 97, 99, 104, 101>>>>,
    \* line 253: '牙痛': 'I have a toothache'
    <<<<29273, 30171>>, <<73, 32, 104, 97, 118, 101, 32, 97, 32, 116, 111, 111, 116, 104, 97, 99, 104, 101>>>>,
    \* line 256: '发烧': 'I have a fever'
    <<<<21457, 28903>>, <<73, 32, 104, 97, 118, 101, 32, 97, 32, 102, 101, 118, 101, 114>>>>,
    \* line 257: '发热': 'I have a fever'
    <<<<21457, 28909>>, <<73, 32, 104, 97, 118, 101, 32, 97, 32, 102, 101, 118, 101, 114>>>>,
    \* line 258: '高烧': 'I have a high fever'
    <<<<39640, 28903>>, <<73, 32, 104, 97, 118, 101, 32, 97, 32, 104, 105, 103, 104, 32, 102, 101, 118, 101, 114>>>>,
    \* line 259: '低烧': 'I have a low fever'
    <<<<20302, 28903>>, <<73, 32, 104, 97, 118, 101, 32, 97, 32, 108, 111, 119, 32, 102, 101, 118, 101, 114>>>>,
    \* line 260: '咳嗽': 'I am coughing'
    <<<<21683, 22013>>, <<73, 32, 97, 109, 32, 99, 111, 117, 103, 104, 105, 110, 103>>>>,
    \* line 261: '干咳': 'I have a dry cough'
    <<<<24178, 21683>>, <<73, 32, 104, 97, 118, 101, 32, 97, 32, 100, 114, 121, 32, 99, 111, 117, 103, 104>>>>,
    \* line 262: '咳痰': 'I am coughing up phlegm'
    <<<<21683, 30192>>, <<73, 32, 97, 109, 32, 99, 111, 117, 103, 104, 105, 110, 103, 32, 117, 112, 32, 112, 104, 108, 101, 103, 109>>>>,
    \* line 263: '流鼻涕': 'I have a runny nose'
    <<<<27969, 40763, 28053>>, <<73, 32, 104, 97, 118, 101, 32, 97, 32, 114, 117, 110, 110, 121, 32, 110, 111, 115, 101>>>>,
    \* line 264: '鼻塞': 'My nose is blocked'
    <<<<40763, 22622>>, <<77, 121, 32, 110, 111, 115, 101, 32, 105, 115, 32, 98, 108, 111, 99, 107, 101, 100>>>>,
    \* line 265: '打喷嚏': 'I am sneezing'
    <<<<25171, 21943, 22159>>, <<73, 32, 97, 109, 32, 115, 110, 101, 101, 122, 105, 110, 103>>>>,
    \* line 266: '感冒': 'I have a cold'
    <<<<24863, 20882>>, <<73, 32, 104, 97, 118, 101, 32, 97, 32, 99, 111, 108, 100>>>>,
    \* line 267: '感冒了': 'I have a cold'
    <<<<24863, 20882, 20102>>, <<73, 32, 104, 97, 118, 101, 32, 97, 32, 99, 111, 108, 100>>>>,
    \* line 268: '流感': 'I have the flu'
    <<<<27969, 24863>>, <<73, 32, 104, 97, 118, 101, 32, 116, 104, 101, 32, 102, 108, 117>>>>,
    \* line 269: '恶心': 'I feel nauseous'
    <<<<24694, 24515>>, <<73, 32, 102, 101, 101, 108, 32, 110, 97, 117, 115, 101, 111, 117, 115>>>>,
    \* line 270: '想吐': 'I feel like vomiting'
    <<<<24819, 21520>>, <<73, 32, 102, 101, 101, 108, 32, 108, 105, 107, 101, 32, 118, 111, 109, 105, 116, 105, 110, 103>>>>,
    \* line 271: '呕吐': 'I am vomiting'
    <<<<21589, 21520>>, <<73, 32, 97, 109, 32, 118, 111, 109, 105, 116, 105, 110, 103>>>>,
    \* line 272: '拉肚子': 'I have diarrhea'
    <<<<25289, 32922, 23376>>, <<73, 32, 104, 97, 118, 101, 32, 100, 105, 97, 114, 114, 104, 101, 97>>>>,
    \* line 273: '腹泻': 'I have diarrhea'
    <<<<33145, 27899>>, <<73, 32, 104, 97, 118, 101, 32, 100, 105, 97, 114, 114, 104, 101, 97>>>>,
    \* line 274: '便秘': 'I am constipated'
    <<<<20415, 31192>>, <<73, 32, 97, 109, 32, 99, 111, 110, 115, 116, 105, 112, 97, 116, 101, 100>>>>,
    \* line 275: '头晕': 'I feel dizzy'
    <<<<22836, 26197>>, <<73, 32, 102, 101, 101, 108, 32, 100, 105, 122, 122, 121>>>>,
    \* line 276: '头昏': 'I feel dizzy'
    <<<<22836, 26127>>, <<73, 32, 102, 101, 101, 108, 32, 100, 105, 122, 122, 121>>>>,
    \* line 277: '晕': 'I feel dizzy'
    <<<<26197>>, <<73, 32, 102, 101, 101, 108, 32, 100, 105, 122, 122, 121>>>>,
    \* line 278: '疲倦': 'I feel tired'
    <<<<30130, 20518>>, <<73, 32, 102, 101, 101, 108, 32, 116, 105, 114, 101, 100>>>>,
    \* line 279: '累': 'I am tired'
    <<<<32047>>, <<73, 32, 97, 109, 32, 116, 105, 114, 101, 100>>>>,
    \* line 280: '乏力': 'I feel weak'
    <<<<20047, 21147>>, <<73, 32, 102, 101, 101, 108, 32, 119, 101, 97, 107>>>>,
    \* line 281: '没力气': 'I have no energy'
    <<<<27809, 21147, 27668>>, <<73, 32, 104, 97, 118, 101, 32, 110, 111, 32, 101, 110, 101, 114, 103, 121>>>>,
    \* line 282: '失眠': 'I have insomnia'
    <<<<22833, 30496>>, <<73, 32, 104, 97, 118, 101, 32, 105, 110, 115, 111, 109, 110, 105, 97>>>>,
    \* line 283: '睡不着': 'Can't sleep'
    <<<<30561, 19981, 30528>>, <<67, 97, 110, 39, 116, 32, 115, 108, 101, 101, 112>>>>,
    \* line 284: '睡不好': 'Can't sleep well'
    <<<<30561, 19981, 22909>>, <<67, 97, 110, 39, 116, 32, 115, 108, 101, 101, 112, 32, 119, 101, 108, 108>>>>,
    \* line 285: '食欲不振': 'Loss of appetite'
    <<<<39135, 27442, 19981, 25391>>, <<76, 111, 115, 115, 32, 111, 102, 32, 97, 112, 112, 101, 116, 105, 116, 101>>>>,
    \* line 286: '吃不下': 'Can't eat'
    <<<<21507, 19981, 19979>>, <<67, 97, 110, 39, 116, 32, 101, 97, 116>>>>,
    \* line 287: '没胃口': 'No appetite'
    <<<<27809, 32963, 21475>>, <<78, 111, 32, 97, 112, 112, 101, 116, 105, 116, 101>>>>,
    \* line 288: '心跳快': 'Fast heartbeat'
    <<<<24515, 36339, 24555>>, <<70, 97, 115, 116, 32, 104, 101, 97, 114, 116, 98, 101, 97, 116>>>>,
    \* line 289: '心慌': 'Heart palpitations'
    <<<<24515, 24908>>, <<72, 101, 97, 114, 116, 32, 112, 97, 108, 112, 105, 116, 97, 116, 105, 111, 110, 115>>>>,
    \* line 290: '气短': 'Shortness of breath'
    <<<<27668, 30701>>, <<83, 104, 111, 114, 116, 110, 101, 115, 115, 32, 111, 102, 32, 98, 114, 101, 97, 116, 104>>>>,
    \* line 291: '呼吸困难': 'Difficulty breathing'
    <<<<21628, 21560, 22256, 38590>>, <<68, 105, 102, 102, 105, 99, 117, 108, 116, 121, 32, 98, 114, 101, 97, 116, 104, 105, 110, 103>>>>,
    \* line 292: '过敏': 'I am allergic'
    <<<<36807, 25935>>, <<73, 32, 97, 109, 32, 97, 108, 108, 101, 114, 103, 105, 99>>>>,
    \* line 293: '过敏反应': 'Allergic reaction'
    <<<<36807, 25935, 21453, 24212>>, <<65, 108, 108, 101, 114, 103, 105, 99, 32, 114, 101, 97, 99, 116, 105, 111, 110>>>>,
    \* line 294: '皮疹': 'I have a rash'
    <<<<30382, 30137>>, <<73, 32, 104, 97, 118, 101, 32, 97, 32, 114, 97, 115, 104>>>>,
    \* line 295: '发痒': 'It's itchy'
    <<<<21457, 30162>>, <<73, 116, 39, 115, 32, 105, 116, 99, 104, 121>>>>,
    \* line 296: '痒': 'It's itchy'
    <<<<30162>>, <<73, 116, 39, 115, 32, 105, 116, 99, 104, 121>>>>,
    \* line 297: '红肿': 'Red and swollen'
    <<<<32418, 32959>>, <<82, 101, 100, 32, 97, 110, 100, 32, 115, 119, 111, 108, 108, 101, 110>>>>,
    \* line 298: '肿胀': 'Swelling'
    <<<<32959, 32960>>, <<83, 119, 101, 108, 108, 105, 110, 103>>>>,
    \* line 301: '疼': 'It hurts'
    <<<<30140>>, <<73, 116, 32, 104, 117, 114, 116, 115>>>>,
    \* line 302: '痛': 'It's painful'
    <<<<30171>>, <<73, 116, 39, 115, 32, 112, 97, 105, 110, 102, 117, 108>>>>,
    \* line 303: '很疼': 'It hurts a lot'
    <<<<24456, 30140>>, <<73, 116, 32, 104, 117, 114, 116, 115, 32, 97, 32, 108, 111, 116>>>>,
    \* line 304: '非常疼': 'It hurts very much'
    <<<<38750, 24120, 30140>>, <<73, 116, 32, 104, 117, 114, 116, 115, 32, 118, 101, 114, 121, 32, 109, 117, 99, 104>>>>,
    \* line 305: '剧痛': 'Severe pain'
    <<<<21095, 30171>>, <<83, 101, 118, 101, 114, 101, 32, 112, 97, 105, 110>>>>,
    \* line 306: '隐痛': 'Dull pain'
    <<<<38544, 30171>>, <<68, 117, 108, 108, 32, 112, 97, 105, 110>>>>,
    \* line 307: '有点疼': 'It hurts a little'
    <<<<26377, 28857, 30140>>, <<73, 116, 32, 104, 117, 114, 116, 115, 32, 97, 32, 108, 105, 116, 116, 108, 101>>>>,
    \* line 308: '一直疼': 'It hurts all the time'
    <<<<19968, 30452, 30140>>, <<73, 116, 32, 104, 117, 114, 116, 115, 32, 97, 108, 108, 32, 116, 104, 101, 32, 116, 105, 109, 101>>>>,
    \* line 309: '有时候疼': 'It hurts sometimes'
    <<<<26377, 26102, 20505, 30140>>, <<73, 116, 32, 104, 117, 114, 116, 115, 32, 115, 111, 109, 101, 116, 105, 109, 101, 115>>>>,
    \* line 310: '刺痛': 'Sharp pain'
    <<<<21050, 30171>>, <<83, 104, 97, 114, 112, 32, 112, 97, 105, 110>>>>,
    \* line 311: '针扎一样疼': 'Like needle pricks'
    <<<<38024, 25166, 19968, 26679, 30140>>, <<76, 105, 107, 101, 32, 110, 101, 101, 100, 108, 101, 32, 112, 114, 105, 99, 107, 115>>>>,
    \* line 312: '闷痛': 'Dull pain'
    <<<<38391, 30171>>, <<68, 117, 108, 108, 32, 112, 97, 105, 110>>>>,
    \* line 313: '胀痛': 'Bloating pain'
    <<<<32960, 30171>>, <<66, 108, 111, 97, 116, 105, 110, 103, 32, 112, 97, 105, 110>>>>,
    \* line 314: '酸痛': 'Aching pain'
    <<<<37240, 30171>>, <<65, 99, 104, 105, 110, 103, 32, 112, 97, 105, 110>>>>,
    \* line 315: '隐隐作痛': 'Dull aching'
    <<<<38544, 38544, 20316, 30171>>, <<68, 117, 108, 108, 32, 97, 99, 104, 105, 110, 103>>>>,
    \* line 316: '一阵一阵的疼': 'Comes and goes'
    <<<<19968, 38453, 19968, 38453, 30340, 30140>>, <<67, 111, 109, 101, 115, 32, 97, 110, 100, 32, 103, 111, 101, 115>>>>,
    \* line 317: '越来越疼': 'Getting worse'
    <<<<36234, 26469, 36234, 30140>>, <<71, 101, 116, 116, 105, 110, 103, 32, 119, 111, 114, 115, 101>>>>,
    \* line 318: '没那么疼了': 'Not as painful now'
    <<<<27809, 37027, 20040, 30140, 20102>>, <<78, 111, 116, 32, 97, 115, 32, 112, 97, 105, 110, 102, 117, 108, 32, 110, 111, 119>>>>,
    \* line 319: '疼得厉害': 'Very painful'
    <<<<30140, 24471, 21385, 23475>>, <<86, 101, 114, 121, 32, 112, 97, 105, 110, 102, 117, 108>>>>,
    \* line 320: '火辣辣的疼': 'Burning pain'
    <<<<28779, 36771, 36771, 30340, 30140>>, <<66, 117, 114, 110, 105, 110, 103, 32, 112, 97, 105, 110>>>>,
    \* line 321: '麻木': 'Numbness'
    <<<<40635, 26408>>, <<78, 117, 109, 98, 110, 101, 115, 115>>>>,
    \* line 322: '发麻': 'Tingling'
    <<<<21457, 40635>>, <<84, 105, 110, 103, 108, 105, 110, 103>>>>,
    \* line 323: '僵硬': 'Stiffness'
    <<<<20725, 30828>>, <<83, 116, 105, 102, 102, 110, 101, 115, 115>>>>,
    \* line 324: '发紧': 'Tightness'
    <<<<21457, 32039>>, <<84, 105, 103, 104, 116, 110, 101, 115, 115>>>>,
    \* line 325: '很疼': 'It hurts a lot'
    <<<<24456, 30140>>, <<73, 116, 32, 104, 117, 114, 116, 115, 32, 97, 32, 108, 111, 116>>>>,
    \* line 326: '有点疼': 'It hurts a little'
    <<<<26377, 28857, 30140>>, <<73, 116, 32, 104, 117, 114, 116, 115, 32, 97, 32, 108, 105, 116, 116, 108, 101>>>>,
    \* line 327: '一直疼': 'It hurts all the time'
    <<<<19968, 30452, 30140>>, <<73, 116, 32, 104, 117, 114, 116, 115, 32, 97, 108, 108, 32, 116, 104, 101, 32, 116, 105, 109, 101>>>>,
    \* line 328: '有时候疼': 'It hurts sometimes'
    <<<<26377, 26102, 20505, 30140>>, <<73, 116, 32, 104, 117, 114, 116, 115, 32, 115, 111, 109, 101, 116, 105, 109, 101, 115>>>>,
    \* line 329: '刺痛': 'Sharp pain'
    <<<<21050, 30171>>, <<83, 104, 97, 114, 112, 32, 112, 97, 105, 110>>>>,
    \* line 330: '闷痛': 'Dull pain'
    <<<<38391, 30171>>, <<68, 117, 108, 108, 32, 112, 97, 105, 110>>>>,
    \* line 331: '胀痛': 'Bloating pain'
    <<<<32960, 30171>>, <<66, 108, 111, 97, 116, 105, 110, 103, 32, 112, 97, 105, 110>>>>,
    \* line 332: '酸痛': 'Aching pain'
    <<<<37240, 30171>>, <<65, 99, 104, 105, 110, 103, 32, 112, 97, 105, 110>>>>,
    \* line 333: '隐隐作痛': 'Dull aching'
    <<<<38544, 38544, 20316, 30171>>, <<68, 117, 108, 108, 32, 97, 99, 104, 105, 110, 103>>>>,
    \* line 334: '一阵一阵的疼': 'Comes and goes'
    <<<<19968, 38453, 19968, 38453, 30340, 30140>>, <<67, 111, 109, 101, 115, 32, 97, 110, 100, 32, 103, 111, 101, 115>>>>,
    \* line 335: '越来越疼': 'Getting worse'
    <<<<36234, 26469, 36234, 30140>>, <<71, 101, 116, 116, 105, 110, 103, 32, 119, 111, 114, 115, 101>>>>,
    \* line 336: '没那么疼了': 'Not as painful now'
    <<<<27809, 37027, 20040, 30140, 20102>>, <<78, 111, 116, 32, 97, 115, 32, 112, 97, 105, 110, 102, 117, 108, 32, 110, 111, 119>>>>,
    \* line 337: '睡不着': 'Can't sleep'
    <<<<30561, 19981, 30528>>, <<67, 97, 110, 39, 116, 32, 115, 108, 101, 101, 112>>>>,
    \* line 338: '吃不下': 'Can't eat'
    <<<<21507, 19981, 19979>>, <<67, 97, 110, 39, 116, 32, 101, 97, 116>>>>,
    \* line 339: '没胃口': 'No appetite'
    <<<<27809, 32963, 21475>>, <<78, 111, 32, 97, 112, 112, 101, 116, 105, 116, 101>>>>,
    \* line 340: '从昨天开始': 'Since yesterday'
    <<<<20174, 26152, 22825, 24320, 22987>>, <<83, 105, 110, 99, 101, 32, 121, 101, 115, 116, 101, 114, 100, 97, 121>>>>,
    \* line 341: '从今天早上开始': 'Since this morning'
    <<<<20174, 20170, 22825, 26089, 19978, 24320, 22987>>, <<83, 105, 110, 99, 101, 32, 116, 104, 105, 115, 32, 109, 111, 114, 110, 105, 110, 103>>>>,
    \* line 342: '两天了': 'For two days'
    <<<<20004, 22825, 20102>>, <<70, 111, 114, 32, 116, 119, 111, 32, 100, 97, 121, 115>>>>,
    \* line 343: '一个星期了': 'For a week'
    <<<<19968, 20010, 26143, 26399, 20102>>, <<70, 111, 114, 32, 97, 32, 119, 101, 101, 107>>>>,
    \* line 344: '一个月了': 'For a month'
    <<<<19968, 20010, 26376, 20102>>, <<70, 111, 114, 32, 97, 32, 109, 111, 110, 116, 104>>>>,
    \* line 345: '大概一个月': 'About a month'
    <<<<22823, 27010, 19968, 20010, 26376>>, <<65, 98, 111, 117, 116, 32, 97, 32, 109, 111, 110, 116, 104>>>>,
    \* line 346: '大概一個月': 'About a month'
    <<<<22823, 27010, 19968, 20491, 26376>>, <<65, 98, 111, 117, 116, 32, 97, 32, 109, 111, 110, 116, 104>>>>,
    \* line 347: '几天了': 'For a few days'
    <<<<20960, 22825, 20102>>, <<70, 111, 114, 32, 97, 32, 102, 101, 119, 32, 100, 97, 121, 115>>>>,
    \* line 348: '很久了': 'For a long time'
    <<<<24456, 20037, 20102>>, <<70, 111, 114, 32, 97, 32, 108, 111, 110, 103, 32, 116, 105, 109, 101>>>>,
    \* line 349: '刚开始': 'Just started'
    <<<<21018, 24320, 22987>>, <<74, 117, 115, 116, 32, 115, 116, 97, 114, 116, 101, 100>>>>,
    \* line 350: '昨天': 'Yesterday'
    <<<<26152, 22825>>, <<89, 101, 115, 116, 101, 114, 100, 97, 121>>>>,
    \* line 351: '今天': 'Today'
    <<<<20170, 22825>>, <<84, 111, 100, 97, 121>>>>,
    \* line 352: '上周': 'Last week'
    <<<<19978, 21608>>, <<76, 97, 115, 116, 32, 119, 101, 101, 107>>>>,
    \* line 353: '上个月': 'Last month'
    <<<<19978, 20010, 26376>>, <<76, 97, 115, 116, 32, 109, 111, 110, 116, 104>>>>,
    \* line 354: '一周': 'One week'
    <<<<19968, 21608>>, <<79, 110, 101, 32, 119, 101, 101, 107>>>>,
    \* line 355: '两周': 'Two weeks'
    <<<<20004, 21608>>, <<84, 119, 111, 32, 119, 101, 101, 107, 115>>>>,
    \* line 356: '三天': 'Three days'
    <<<<19977, 22825>>, <<84, 104, 114, 101, 101, 32, 100, 97, 121, 115>>>>,
    \* line 357: '五天': 'Five days'
    <<<<20116, 22825>>, <<70, 105, 118, 101, 32, 100, 97, 121, 115>>>>,
    \* line 358: '十天': 'Ten days'
    <<<<21313, 22825>>, <<84, 101, 110, 32, 100, 97, 121, 115>>>>,
    \* line 359: '半个月': 'Half a month'
    <<<<21322, 20010, 26376>>, <<72, 97, 108, 102, 32, 97, 32, 109, 111, 110, 116, 104>>>>,
    \* line 360: '两个月': 'Two months'
    <<<<20004, 20010, 26376>>, <<84, 119, 111, 32, 109, 111, 110, 116, 104, 115>>>>,
    \* line 361: '很多年了': 'For many years'
    <<<<24456, 22810, 24180, 20102>>, <<70, 111, 114, 32, 109, 97, 110, 121, 32, 121, 101, 97, 114, 115>>>>,
    \* line 364: '以前有过': 'I had it before'
    <<<<20197, 21069, 26377, 36807>>, <<73, 32, 104, 97, 100, 32, 105, 116, 32, 98, 101, 102, 111, 114, 101>>>>,
    \* line 365: '第一次': 'First time'
    <<<<31532, 19968, 27425>>, <<70, 105, 114, 115, 116, 32, 116, 105, 109, 101>>>>,
    \* line 366: '家族史': 'Family history'
    <<<<23478, 26063, 21490>>, <<70, 97, 109, 105, 108, 121, 32, 104, 105, 115, 116, 111, 114, 121>>>>,
    \* line 367: '遗传': 'Hereditary'
    <<<<36951, 20256>>, <<72, 101, 114, 101, 100, 105, 116, 97, 114, 121>>>>,
    \* line 368: '高血压': 'High blood pressure'
    <<<<39640, 34880, 21387>>, <<72, 105, 103, 104, 32, 98, 108, 111, 111, 100, 32, 112, 114, 101, 115, 115, 117, 114, 101>>>>,
    \* line 369: '糖尿病': 'Diabetes'
    <<<<31958, 23615, 30149>>, <<68, 105, 97, 98, 101, 116, 101, 115>>>>,
    \* line 370: '心脏病': 'Heart disease'
    <<<<24515, 33039, 30149>>, <<72, 101, 97, 114, 116, 32, 100, 105, 115, 101, 97, 115, 101>>>>,
    \* line 371: '哮喘': 'Asthma'
    <<<<21742, 21912>>, <<65, 115, 116, 104, 109, 97>>>>,
    \* line 372: '过敏史': 'Allergy history'
    <<<<36807, 25935, 21490>>, <<65, 108, 108, 101, 114, 103, 121, 32, 104, 105, 115, 116, 111, 114, 121>>>>,
    \* line 373: '药物过敏': 'Drug allergy'
    <<<<33647, 29289, 36807, 25935>>, <<68, 114, 117, 103, 32, 97, 108, 108, 101, 114, 103, 121>>>>,
    \* line 374: '食物过敏': 'Food allergy'
    <<<<39135, 29289, 36807, 25935>>, <<70, 111, 111, 100, 32, 97, 108, 108, 101, 114, 103, 121>>>>,
    \* line 375: '怀孕': 'Pregnant'
    <<<<24576, 23381>>, <<80, 114, 101, 103, 110, 97, 110, 116>>>>,
    \* line 376: '怀孕了': 'I am pregnant'
    <<<<24576, 23381, 20102>>, <<73, 32, 97, 109, 32, 112, 114, 101, 103, 110, 97, 110, 116>>>>,
    \* line 377: '月经': 'Menstruation'
    <<<<26376, 32463>>, <<77, 101, 110, 115, 116, 114, 117, 97, 116, 105, 111, 110>>>>,
    \* line 378: '生理期': 'Menstrual period'
    <<<<29983, 29702, 26399>>, <<77, 101, 110, 115, 116, 114, 117, 97, 108, 32, 112, 101, 114, 105, 111, 100>>>>,
    \* line 379: '吃药': 'Taking medication'
    <<<<21507, 33647>>, <<84, 97, 107, 105, 110, 103, 32, 109, 101, 100, 105, 99, 97, 116, 105, 111, 110>>>>,
    \* line 380: '正在吃药': 'Currently taking medication'
    <<<<27491, 22312, 21507, 33647>>, <<67, 117, 114, 114, 101, 110, 116, 108, 121, 32, 116, 97, 107, 105, 110, 103, 32, 109, 101, 100, 105, 99, 97, 116, 105, 111, 110>>>>,
    \* line 381: '没吃药': 'Not taking medication'
    <<<<27809, 21507, 33647>>, <<78, 111, 116, 32, 116, 97, 107, 105, 110, 103, 32, 109, 101, 100, 105, 99, 97, 116, 105, 111, 110>>>>,
    \* line 382: '按时吃药': 'Taking medication on time'
    <<<<25353, 26102, 21507, 33647>>, <<84, 97, 107, 105, 110, 103, 32, 109, 101, 100, 105, 99, 97, 116, 105, 111, 110, 32, 111, 110, 32, 116, 105, 109, 101>>>>,
    \* line 383: '忘记吃药': 'Forgot to take medication'
    <<<<24536, 35760, 21507, 33647>>, <<70, 111, 114, 103, 111, 116, 32, 116, 111, 32, 116, 97, 107, 101, 32, 109, 101, 100, 105, 99, 97, 116, 105, 111, 110>>>>,
    \* line 384: '手术': 'Surgery'
    <<<<25163, 26415>>, <<83, 117, 114, 103, 101, 114, 121>>>>,
    \* line 385: '做过手术': 'Had surgery'
    <<<<20570, 36807, 25163, 26415>>, <<72, 97, 100, 32, 115, 117, 114, 103, 101, 114, 121>>>>,
    \* line 386: '住院': 'Hospitalized'
    <<<<20303, 38498>>, <<72, 111, 115, 112, 105, 116, 97, 108, 105, 122, 101, 100>>>>,
    \* line 387: '住过院': 'Was hospitalized'
    <<<<20303, 36807, 38498>>, <<87, 97, 115, 32, 104, 111, 115, 112, 105, 116, 97, 108, 105, 122, 101, 100>>>>,
    \* line 388: '体检': 'Physical examination'
    <<<<20307, 26816>>, <<80, 104, 121, 115, 105, 99, 97, 108, 32, 101, 120, 97, 109, 105, 110, 97, 116, 105, 111, 110>>>>,
    \* line 389: '检查': 'Examination'
    <<<<26816, 26597>>, <<69, 120, 97, 109, 105, 110, 97, 116, 105, 111, 110>>>>,
    \* line 390: '化验': 'Lab test'
    <<<<21270, 39564>>, <<76, 97, 98, 32, 116, 101, 115, 116>>>>,
    \* line 391: '拍片': 'X-ray'
    <<<<25293, 29255>>, <<88, 45, 114, 97, 121>>>>,
    \* line 392: 'CT': 'CT scan'
    <<<<67, 84>>, <<67, 84, 32, 115, 99, 97, 110>>>>,
    \* line 393: 'B超': 'Ultrasound'
    <<<<66, 36229>>, <<85, 108, 116, 114, 97, 115, 111, 117, 110, 100>>>>,
    \* line 394: '谢谢': 'Thank you'
    <<<<35874, 35874>>, <<84, 104, 97, 110, 107, 32, 121, 111, 117>>>>,
    \* line 395: '再见': 'Goodbye'
    <<<<20877, 35265>>, <<71, 111, 111, 100, 98, 121, 101>>>>,
    \* line 396: '是的': 'Yes'
    <<<<26159, 30340>>, <<89, 101, 115>>>>,
    \* line 397: '不是': 'No'
    <<<<19981, 26159>>, <<78, 111>>>>,
    \* line 398: '我不知道': 'I don't know'
    <<<<25105, 19981, 30693, 36947>>, <<73, 32, 100, 111, 110, 39, 116, 32, 107, 110, 111, 119>>>>,
    \* line 401: '我好好': 'I am fine'
    <<<<25105, 22909, 22909>>, <<73, 32, 97, 109, 32, 102, 105, 110, 101>>>>,
    \* line 402: '我唔舒服': 'I don't feel well'
    <<<<25105, 21780, 33298, 26381>>, <<73, 32, 100, 111, 110, 39, 116, 32, 102, 101, 101, 108, 32, 119, 101, 108, 108>>>>,
    \* line 403: '我唔好': 'I am not well'
    <<<<25105, 21780, 22909>>, <<73, 32, 97, 109, 32, 110, 111, 116, 32, 119, 101, 108, 108>>>>,
    \* line 404: '我病咗': 'I am sick'
    <<<<25105, 30149, 21655>>, <<73, 32, 97, 109, 32, 115, 105, 99, 107>>>>,
    \* line 405: '我感覺唔好': 'I don't feel good'
    <<<<25105, 24863, 35258, 21780, 22909>>, <<73, 32, 100, 111, 110, 39, 116, 32, 102, 101, 101, 108, 32, 103, 111, 111, 100>>>>,
    \* line 408: '呢度痛': 'It hurts here'
    <<<<21602, 24230, 30171>>, <<73, 116, 32, 104, 117, 114, 116, 115, 32, 104, 101, 114, 101>>>>,
    \* line 409: '嗰度痛': 'It hurts there'
    <<<<22000, 24230, 30171>>, <<73, 116, 32, 104, 117, 114, 116, 115, 32, 116, 104, 101, 114, 101>>>>,
    \* line 410: '頭痛': 'I have a headache'
    <<<<38957, 30171>>, <<73, 32, 104, 97, 118, 101, 32, 97, 32, 104, 101, 97, 100, 97, 99, 104, 101>>>>,
    \* line 411: '頭疼': 'I have a headache'
    <<<<38957, 30140>>, <<73, 32, 104, 97, 118, 101, 32, 97, 32, 104, 101, 97, 100, 97, 99, 104, 101>>>>,
    \* line 412: '偏頭痛': 'I have a migraine'
    <<<<20559, 38957, 30171>>, <<73, 32, 104, 97, 118, 101, 32, 97, 32, 109, 105, 103, 114, 97, 105, 110, 101>>>>,
    \* line 413: '肚痛': 'My stomach hurts'
    <<<<32922, 30171>>, <<77, 121, 32, 115, 116, 111, 109, 97, 99, 104, 32, 104, 117, 114, 116, 115>>>>,
    \* line 414: '胃痛': 'My stomach hurts'
    <<<<32963, 30171>>, <<77, 121, 32, 115, 116, 111, 109, 97, 99, 104, 32, 104, 117, 114, 116, 115>>>>,
    \* line 415: '肚仔痛': 'My stomach hurts'
    <<<<32922, 20180, 30171>>, <<77, 121, 32, 115, 116, 111, 109, 97, 99, 104, 32, 104, 117, 114, 116, 115>>>>,
    \* line 416: '喉嚨痛': 'My throat hurts'
    <<<<21897, 22184, 30171>>, <<77, 121, 32, 116, 104, 114, 111, 97, 116, 32, 104, 117, 114, 116, 115>>>>,
    \* line 417: '扁桃腺發炎': 'My tonsils are inflamed'
    <<<<25153, 26691, 33146, 30332, 28814>>, <<77, 121, 32, 116, 111, 110, 115, 105, 108, 115, 32, 97, 114, 101, 32, 105, 110, 102, 108, 97, 109, 101, 100>>>>,
    \* line 418: '背脊痛': 'My back hurts'
    <<<<32972, 33034, 30171>>, <<77, 121, 32, 98, 97, 99, 107, 32, 104, 117, 114, 116, 115>>>>,
    \* line 419: '腰痛': 'My lower back hurts'
    <<<<33136, 30171>>, <<77, 121, 32, 108, 111, 119, 101, 114, 32, 98, 97, 99, 107, 32, 104, 117, 114, 116, 115>>>>,
    \* line 420: '頸痛': 'My neck hurts'
    <<<<38968, 30171>>, <<77, 121, 32, 110, 101, 99, 107, 32, 104, 117, 114, 116, 115>>>>,
    \* line 421: '膊頭痛': 'My shoulder hurts'
    <<<<33162, 38957, 30171>>, <<77, 121, 32, 115, 104, 111, 117, 108, 100, 101, 114, 32, 104, 117, 114, 116, 115>>>>,
    \* line 422: '胸口痛': 'My chest hurts'
    <<<<33016, 21475, 30171>>, <<77, 121, 32, 99, 104, 101, 115, 116, 32, 104, 117, 114, 116, 115>>>>,
    \* line 423: '心口痛': 'My chest hurts'
    <<<<24515, 21475, 30171>>, <<77, 121, 32, 99, 104, 101, 115, 116, 32, 104, 117, 114, 116, 115>>>>,
    \* line 424: '心臟痛': 'My heart hurts'
    <<<<24515, 33247, 30171>>, <<77, 121, 32, 104, 101, 97, 114, 116, 32, 104, 117, 114, 116, 115>>>>,
    \* line 425: '膝頭痛': 'My knee hurts'
    <<<<33181, 38957, 30171>>, <<77, 121, 32, 107, 110, 101, 101, 32, 104, 117, 114, 116, 115>>>>,
    \* line 426: '腳痛': 'My leg hurts'
    <<<<33139, 30171>>, <<77, 121, 32, 108, 101, 103, 32, 104, 117, 114, 116, 115>>>>,
    \* line 427: '腳板痛': 'My foot hurts'
    <<<<33139, 26495, 30171>>, <<77, 121, 32, 102, 111, 111, 116, 32, 104, 117, 114, 116, 115>>>>,
    \* line 428: '手痛': 'My hand hurts'
    <<<<25163, 30171>>, <<77, 121, 32, 104, 97, 110, 100, 32, 104, 117, 114, 116, 115>>>>,
    \* line 429: '手臂痛': 'My arm hurts'
    <<<<25163, 33218, 30171>>, <<77, 121, 32, 97, 114, 109, 32, 104, 117, 114, 116, 115>>>>,
    \* line 430: '眼痛': 'My eyes hurt'
    <<<<30524, 30171>>, <<77, 121, 32, 101, 121, 101, 115, 32, 104, 117, 114, 116>>>>,
    \* line 431: '耳仔痛': 'My ear hurts'
    <<<<32819, 20180, 30171>>, <<77, 121, 32, 101, 97, 114, 32, 104, 117, 114, 116, 115>>>>,
    \* line 432: '牙痛': 'I have a toothache'
    <<<<29273, 30171>>, <<73, 32, 104, 97, 118, 101, 32, 97, 32, 116, 111, 111, 116, 104, 97, 99, 104, 101>>>>,
    \* line 433: '牙齒痛': 'I have a toothache'
    <<<<29273, 40786, 30171>>, <<73, 32, 104, 97, 118, 101, 32, 97, 32, 116, 111, 111, 116, 104, 97, 99, 104, 101>>>>,
    \* line 436: '發燒': 'I have a fever'
    <<<<30332, 29138>>, <<73, 32, 104, 97, 118, 101, 32, 97, 32, 102, 101, 118, 101, 114>>>>,
    \* line 437: '發熱': 'I have a fever'
    <<<<30332, 29105>>, <<73, 32, 104, 97, 118, 101, 32, 97, 32, 102, 101, 118, 101, 114>>>>,
    \* line 438: '高燒': 'I have a high fever'
    <<<<39640, 29138>>, <<73, 32, 104, 97, 118, 101, 32, 97, 32, 104, 105, 103, 104, 32, 102, 101, 118, 101, 114>>>>,
    \* line 439: '低燒': 'I have a low fever'
    <<<<20302, 29138>>, <<73, 32, 104, 97, 118, 101, 32, 97, 32, 108, 111, 119, 32, 102, 101, 118, 101, 114>>>>,
    \* line 440: '咳': 'I am coughing'
    <<<<21683>>, <<73, 32, 97, 109, 32, 99, 111, 117, 103, 104, 105, 110, 103>>>>,
    \* line 441: '咳嗽': 'I am coughing'
    <<<<21683, 22013>>, <<73, 32, 97, 109, 32, 99, 111, 117, 103, 104, 105, 110, 103>>>>,
    \* line 442: '乾咳': 'I have a dry cough'
    <<<<20094, 21683>>, <<73, 32, 104, 97, 118, 101, 32, 97, 32, 100, 114, 121, 32, 99, 111, 117, 103, 104>>>>,
    \* line 443: '咳痰': 'I am coughing up phlegm'
    <<<<21683, 30192>>, <<73, 32, 97, 109, 32, 99, 111, 117, 103, 104, 105, 110, 103, 32, 117, 112, 32, 112, 104, 108, 101, 103, 109>>>>,
    \* line 444: '流鼻水': 'I have a runny nose'
    <<<<27969, 40763, 27700>>, <<73, 32, 104, 97, 118, 101, 32, 97, 32, 114, 117, 110, 110, 121, 32, 110, 111, 115, 101>>>>,
    \* line 445: '鼻塞': 'My nose is blocked'
    <<<<40763, 22622>>, <<77, 121, 32, 110, 111, 115, 101, 32, 105, 115, 32, 98, 108, 111, 99, 107, 101, 100>>>>,
    \* line 446: '打乞嗤': 'I am sneezing'
    <<<<25171, 20062, 21988>>, <<73, 32, 97, 109, 32, 115, 110, 101, 101, 122, 105, 110, 103>>>>,
    \* line 447: '感冒': 'I have a cold'
    <<<<24863, 20882>>, <<73, 32, 104, 97, 118, 101, 32, 97, 32, 99, 111, 108, 100>>>>,
    \* line 448: '感冒咗': 'I have a cold'
    <<<<24863, 20882, 21655>>, <<73, 32, 104, 97, 118, 101, 32, 97, 32, 99, 111, 108, 100>>>>,
    \* line 449: '流感': 'I have the flu'
    <<<<27969, 24863>>, <<73, 32, 104, 97, 118, 101, 32, 116, 104, 101, 32, 102, 108, 117>>>>,
    \* line 450: '想嘔': 'I feel nauseous'
    <<<<24819, 22036>>, <<73, 32, 102, 101, 101, 108, 32, 110, 97, 117, 115, 101, 111, 117, 115>>>>,
    \* line 451: '想吐': 'I feel like vomiting'
    <<<<24819, 21520>>, <<73, 32, 102, 101, 101, 108, 32, 108, 105, 107, 101, 32, 118, 111, 109, 105, 116, 105, 110, 103>>>>,
    \* line 452: '嘔吐': 'I am vomiting'
    <<<<22036, 21520>>, <<73, 32, 97, 109, 32, 118, 111, 109, 105, 116, 105, 110, 103>>>>,
    \* line 453: '肚瀉': 'I have diarrhea'
    <<<<32922, 28681>>, <<73, 32, 104, 97, 118, 101, 32, 100, 105, 97, 114, 114, 104, 101, 97>>>>,
    \* line 454: '腹瀉': 'I have diarrhea'
    <<<<33145, 28681>>, <<73, 32, 104, 97, 118, 101, 32, 100, 105, 97, 114, 114, 104, 101, 97>>>>,
    \* line 455: '便秘': 'I am constipated'
    <<<<20415, 31192>>, <<73, 32, 97, 109, 32, 99, 111, 110, 115, 116, 105, 112, 97, 116, 101, 100>>>>,
    \* line 456: '頭暈': 'I feel dizzy'
    <<<<38957, 26248>>, <<73, 32, 102, 101, 101, 108, 32, 100, 105, 122, 122, 121>>>>,
    \* line 457: '頭昏': 'I feel dizzy'
    <<<<38957, 26127>>, <<73, 32, 102, 101, 101, 108, 32, 100, 105, 122, 122, 121>>>>,
    \* line 458: '暈': 'I feel dizzy'
    <<<<26248>>, <<73, 32, 102, 101, 101, 108, 32, 100, 105, 122, 122, 121>>>>,
    \* line 459: '攰': 'I am tired'
    <<<<25904>>, <<73, 32, 97, 109, 32, 116, 105, 114, 101, 100>>>>,
    \* line 460: '好攰': 'I am very tired'
    <<<<22909, 25904>>, <<73, 32, 97, 109, 32, 118, 101, 114, 121, 32, 116, 105, 114, 101, 100>>>>,
    \* line 461: '冇力': 'I feel weak'
    <<<<20871, 21147>>, <<73, 32, 102, 101, 101, 108, 32, 119, 101, 97, 107>>>>,
    \* line 462: '冇氣力': 'I have no energy'
    <<<<20871, 27683, 21147>>, <<73, 32, 104, 97, 118, 101, 32, 110, 111, 32, 101, 110, 101, 114, 103, 121>>>>,
    \* line 463: '失眠': 'I have insomnia'
    <<<<22833, 30496>>, <<73, 32, 104, 97, 118, 101, 32, 105, 110, 115, 111, 109, 110, 105, 97>>>>,
    \* line 464: '瞓唔著': 'Can't sleep'
    <<<<30611, 21780, 33879>>, <<67, 97, 110, 39, 116, 32, 115, 108, 101, 101, 112>>>>,
    \* line 465: '瞓唔好': 'Can't sleep well'
    <<<<30611, 21780, 22909>>, <<67, 97, 110, 39, 116, 32, 115, 108, 101, 101, 112, 32, 119, 101, 108, 108>>>>,
    \* line 466: '冇胃口': 'Loss of appetite'
    <<<<20871, 32963, 21475>>, <<76, 111, 115, 115, 32, 111, 102, 32, 97, 112, 112, 101, 116, 105, 116, 101>>>>,
    \* line 467: '食唔落': 'Can't eat'
    <<<<39135, 21780, 33853>>, <<67, 97, 110, 39, 116, 32, 101, 97, 116>>>>,
    \* line 468: '冇食慾': 'No appetite'
    <<<<20871, 39135, 24958>>, <<78, 111, 32, 97, 112, 112, 101, 116, 105, 116, 101>>>>,
    \* line 469: '心跳快': 'Fast heartbeat'
    <<<<24515, 36339, 24555>>, <<70, 97, 115, 116, 32, 104, 101, 97, 114, 116, 98, 101, 97, 116>>>>,
    \* line 470: '心慌': 'Heart palpitations'
    <<<<24515, 24908>>, <<72, 101, 97, 114, 116, 32, 112, 97, 108, 112, 105, 116, 97, 116, 105, 111, 110, 115>>>>,
    \* line 471: '氣促': 'Shortness of breath'
    <<<<27683, 20419>>, <<83, 104, 111, 114, 116, 110, 101, 115, 115, 32, 111, 102, 32, 98, 114, 101, 97, 116, 104>>>>,
    \* line 472: '呼吸困難': 'Difficulty breathing'
    <<<<21628, 21560, 22256, 38627>>, <<68, 105, 102, 102, 105, 99, 117, 108, 116, 121, 32, 98, 114, 101, 97, 116, 104, 105, 110, 103>>>>,
    \* line 473: '過敏': 'I am allergic'
    <<<<36942, 25935>>, <<73, 32, 97, 109, 32, 97, 108, 108, 101, 114, 103, 105, 99>>>>,
    \* line 474: '過敏反應': 'Allergic reaction'
    <<<<36942, 25935, 21453, 25033>>, <<65, 108, 108, 101, 114, 103, 105, 99, 32, 114, 101, 97, 99, 116, 105, 111, 110>>>>,
    \* line 475: '皮疹': 'I have a rash'
    <<<<30382, 30137>>, <<73, 32, 104, 97, 118, 101, 32, 97, 32, 114, 97, 115, 104>>>>,
    \* line 476: '痕癢': 'It's itchy'
    <<<<30165, 30306>>, <<73, 116, 39, 115, 32, 105, 116, 99, 104, 121>>>>,
    \* line 477: '痕': 'It's itchy'
    <<<<30165>>, <<73, 116, 39, 115, 32, 105, 116, 99, 104, 121>>>>,
    \* line 478: '紅腫': 'Red and swollen'
    <<<<32005, 33131>>, <<82, 101, 100, 32, 97, 110, 100, 32, 115, 119, 111, 108, 108, 101, 110>>>>,
    \* line 479: '腫脹': 'Swelling'
    <<<<33131, 33081>>, <<83, 119, 101, 108, 108, 105, 110, 103>>>>,
    \* line 482: '痛': 'It hurts'
    <<<<30171>>, <<73, 116, 32, 104, 117, 114, 116, 115>>>>,
    \* line 483: '好痛': 'It hurts a lot'
    <<<<22909, 30171>>, <<73, 116, 32, 104, 117, 114, 116, 115, 32, 97, 32, 108, 111, 116>>>>,
    \* line 484: '非常痛': 'It hurts very much'
    <<<<38750, 24120, 30171>>, <<73, 116, 32, 104, 117, 114, 116, 115, 32, 118, 101, 114, 121, 32, 109, 117, 99, 104>>>>,
    \* line 485: '劇痛': 'Severe pain'
    <<<<21127, 30171>>, <<83, 101, 118, 101, 114, 101, 32, 112, 97, 105, 110>>>>,
    \* line 486: '隱痛': 'Dull pain'
    <<<<38577, 30171>>, <<68, 117, 108, 108, 32, 112, 97, 105, 110>>>>,
    \* line 487: '有啲痛': 'It hurts a little'
    <<<<26377, 21874, 30171>>, <<73, 116, 32, 104, 117, 114, 116, 115, 32, 97, 32, 108, 105, 116, 116, 108, 101>>>>,
    \* line 488: '一直痛': 'It hurts all the time'
    <<<<19968, 30452, 30171>>, <<73, 116, 32, 104, 117, 114, 116, 115, 32, 97, 108, 108, 32, 116, 104, 101, 32, 116, 105, 109, 101>>>>,
    \* line 489: '有時痛': 'It hurts sometimes'
    <<<<26377, 26178, 30171>>, <<73, 116, 32, 104, 117, 114, 116, 115, 32, 115, 111, 109, 101, 116, 105, 109, 101, 115>>>>,
    \* line 490: '刺痛': 'Sharp pain'
    <<<<21050, 30171>>, <<83, 104, 97, 114, 112, 32, 112, 97, 105, 110>>>>,
    \* line 491: '好似針拮咁痛': 'Like needle pricks'
    <<<<22909, 20284, 37341, 25326, 21633, 30171>>, <<76, 105, 107, 101, 32, 110, 101, 101, 100, 108, 101, 32, 112, 114, 105, 99, 107, 115>>>>,
    \* line 492: '悶痛': 'Dull pain'
    <<<<24758, 30171>>, <<68, 117, 108, 108, 32, 112, 97, 105, 110>>>>,
    \* line 493: '脹痛': 'Bloating pain'
    <<<<33081, 30171>>, <<66, 108, 111, 97, 116, 105, 110, 103, 32, 112, 97, 105, 110>>>>,
    \* line 494: '酸痛': 'Aching pain'
    <<<<37240, 30171>>, <<65, 99, 104, 105, 110, 103, 32, 112, 97, 105, 110>>>>,
    \* line 495: '隱隱作痛': 'Dull aching'
    <<<<38577, 38577, 20316, 30171>>, <<68, 117, 108, 108, 32, 97, 99, 104, 105, 110, 103>>>>,
    \* line 496: '一陣一陣咁痛': 'Comes and goes'
    <<<<19968, 38499, 19968, 38499, 21633, 30171>>, <<67, 111, 109, 101, 115, 32, 97, 110, 100, 32, 103, 111, 101, 115>>>>,
    \* line 497: '越嚟越痛': 'Getting worse'
    <<<<36234, 22175, 36234, 30171>>, <<71, 101, 116, 116, 105, 110, 103, 32, 119, 111, 114, 115, 101>>>>,
    \* line 498: '冇咁痛喇': 'Not as painful now'
    <<<<20871, 21633, 30171, 21895>>, <<78, 111, 116, 32, 97, 115, 32, 112, 97, 105, 110, 102, 117, 108, 32, 110, 111, 119>>>>,
    \* line 499: '痛到好犀利': 'Very painful'
    <<<<30171, 21040, 22909, 29312, 21033>>, <<86, 101, 114, 121, 32, 112, 97, 105, 110, 102, 117, 108>>>>,
    \* line 500: '火辣辣咁痛': 'Burning pain'
    <<<<28779, 36771, 36771, 21633, 30171>>, <<66, 117, 114, 110, 105, 110, 103, 32, 112, 97, 105, 110>>>>,
    \* line 501: '麻痺': 'Numbness'
    <<<<40635, 30202>>, <<78, 117, 109, 98, 110, 101, 115, 115>>>>,
    \* line 502: '發麻': 'Tingling'
    <<<<30332, 40635>>, <<84, 105, 110, 103, 108, 105, 110, 103>>>>,
    \* line 503: '僵硬': 'Stiffness'
    <<<<20725, 30828>>, <<83, 116, 105, 102, 102, 110, 101, 115, 115>>>>,
    \* line 504: '發緊': 'Tightness'
    <<<<30332, 32202>>, <<84, 105, 103, 104, 116, 110, 101, 115, 115>>>>,
    \* line 505: '好痛': 'It hurts a lot'
    <<<<22909, 30171>>, <<73, 116, 32, 104, 117, 114, 116, 115, 32, 97, 32, 108, 111, 116>>>>,
    \* line 506: '有啲痛': 'It hurts a little'
    <<<<26377, 21874, 30171>>, <<73, 116, 32, 104, 117, 114, 116, 115, 32, 97, 32, 108, 105, 116, 116, 108, 101>>>>,
    \* line 507: '一直痛': 'It hurts all the time'
    <<<<19968, 30452, 30171>>, <<73, 116, 32, 104, 117, 114, 116, 115, 32, 97, 108, 108, 32, 116, 104, 101, 32, 116, 105, 109, 101>>>>,
    \* line 508: '有時痛': 'It hurts sometimes'
    <<<<26377, 26178, 30171>>, <<73, 116, 32, 104, 117, 114, 116, 115, 32, 115, 111, 109, 101, 116, 105, 109, 101, 115>>>>,
    \* line 509: '刺痛': 'Sharp pain'
    <<<<21050, 30171>>, <<83, 104, 97, 114, 112, 32, 112, 97, 105, 110>>>>,
    \* line 510: '悶痛': 'Dull pain'
    <<<<24758, 30171>>, <<68, 117, 108, 108, 32, 112, 97, 105, 110>>>>,
    \* line 511: '脹痛': 'Bloating pain'
    <<<<33081, 30171>>, <<66, 108, 111, 97, 116, 105, 110, 103, 32, 112, 97, 105, 110>>>>,
    \* line 512: '酸痛': 'Aching pain'
    <<<<37240, 30171>>, <<65, 99, 104, 105, 110, 103, 32, 112, 97, 105, 110>>>>,
    \* line 513: '隱隱作痛': 'Dull aching'
    <<<<38577, 38577, 20316, 30171>>, <<68, 117, 108, 108, 32, 97, 99, 104, 105, 110, 103>>>>,
    \* line 514: '一陣一陣咁痛': 'Comes and goes'
    <<<<19968, 38499, 19968, 38499, 21633, 30171>>, <<67, 111, 109, 101, 115, 32, 97, 110, 100, 32, 103, 111, 101, 115>>>>,
    \* line 515: '越嚟越痛': 'Getting worse'
    <<<<36234, 22175, 36234, 30171>>, <<71, 101, 116, 116, 105, 110, 103, 32, 119, 111, 114, 115, 101>>>>,
    \* line 516: '冇咁痛喇': 'Not as painful now'
    <<<<20871, 21633, 30171, 21895>>, <<78, 111, 116, 32, 97, 115, 32, 112, 97, 105, 110, 102, 117, 108, 32, 110, 111, 119>>>>,
    \* line 517: '瞓唔著': 'Can't sleep'
    <<<<30611, 21780, 33879>>, <<67, 97, 110, 39, 116, 32, 115, 108, 101, 101, 112>>>>,
    \* line 518: '食唔落': 'Can't eat'
    <<<<39135, 21780, 33853>>, <<67, 97, 110, 39, 116, 32, 101, 97, 116>>>>,
    \* line 519: '冇胃口': 'No appetite'
    <<<<20871, 32963, 21475>>, <<78, 111, 32, 97, 112, 112, 101, 116, 105, 116, 101>>>>,
    \* line 520: '從琴日開始': 'Since yesterday'
    <<<<24478, 29748, 26085, 38283, 22987>>, <<83, 105, 110, 99, 101, 32, 121, 101, 115, 116, 101, 114, 100, 97, 121>>>>,
    \* line 521: '從今朝開始': 'Since this morning'
    <<<<24478, 20170, 26397, 38283, 22987>>, <<83, 105, 110, 99, 101, 32, 116, 104, 105, 115, 32, 109, 111, 114, 110, 105, 110, 103>>>>,
    \* line 522: '兩日喇': 'For two days'
    <<<<20841, 26085, 21895>>, <<70, 111, 114, 32, 116, 119, 111, 32, 100, 97, 121, 115>>>>,
    \* line 523: '一個禮拜喇': 'For a week'
    <<<<19968, 20491, 31150, 25308, 21895>>, <<70, 111, 114, 32, 97, 32, 119, 101, 101, 107>>>>,
    \* line 524: '一個月喇': 'For a month'
    <<<<19968, 20491, 26376, 21895>>, <<70, 111, 114, 32, 97, 32, 109, 111, 110, 116, 104>>>>,
    \* line 525: '大概一個月': 'About a month'
    <<<<22823, 27010, 19968, 20491, 26376>>, <<65, 98, 111, 117, 116, 32, 97, 32, 109, 111, 110, 116, 104>>>>,
    \* line 526: '幾日喇': 'For a few days'
    <<<<24190, 26085, 21895>>, <<70, 111, 114, 32, 97, 32, 102, 101, 119, 32, 100, 97, 121, 115>>>>,
    \* line 527: '好耐喇': 'For a long time'
    <<<<22909, 32784, 21895>>, <<70, 111, 114, 32, 97, 32, 108, 111, 110, 103, 32, 116, 105, 109, 101>>>>,
    \* line 528: '啱啱開始': 'Just started'
    <<<<21873, 21873, 38283, 22987>>, <<74, 117, 115, 116, 32, 115, 116, 97, 114, 116, 101, 100>>>>,
    \* line 529: '琴日': 'Yesterday'
    <<<<29748, 26085>>, <<89, 101, 115, 116, 101, 114, 100, 97, 121>>>>,
    \* line 530: '今日': 'Today'
    <<<<20170, 26085>>, <<84, 111, 100, 97, 121>>>>,
    \* line 531: '上星期': 'Last week'
    <<<<19978, 26143, 26399>>, <<76, 97, 115, 116, 32, 119, 101, 101, 107>>>>,
    \* line 532: '上個月': 'Last month'
    <<<<19978, 20491, 26376>>, <<76, 97, 115, 116, 32, 109, 111, 110, 116, 104>>>>,
    \* line 533: '一星期': 'One week'
    <<<<19968, 26143, 26399>>, <<79, 110, 101, 32, 119, 101, 101, 107>>>>,
    \* line 534: '兩星期': 'Two weeks'
    <<<<20841, 26143, 26399>>, <<84, 119, 111, 32, 119, 101, 101, 107, 115>>>>,
    \* line 535: '三日': 'Three days'
    <<<<19977, 26085>>, <<84, 104, 114, 101, 101, 32, 100, 97, 121, 115>>>>,
    \* line 536: '五日': 'Five days'
    <<<<20116, 26085>>, <<70, 105, 118, 101, 32, 100, 97, 121, 115>>>>,
    \* line 537: '十日': 'Ten days'
    <<<<21313, 26085>>, <<84, 101, 110, 32, 100, 97, 121, 115>>>>,
    \* line 538: '半個月': 'Half a month'
    <<<<21322, 20491, 26376>>, <<72, 97, 108, 102, 32, 97, 32, 109, 111, 110, 116, 104>>>>,
    \* line 539: '兩個月': 'Two months'
    <<<<20841, 20491, 26376>>, <<84, 119, 111, 32, 109, 111, 110, 116, 104, 115>>>>,
    \* line 540: '好多年喇': 'For many years'
    <<<<22909, 22810, 24180, 21895>>, <<70, 111, 114, 32, 109, 97, 110, 121, 32, 121, 101, 97, 114, 115>>>>,
    \* line 543: '以前有過': 'I had it before'
    <<<<20197, 21069, 26377, 36942>>, <<73, 32, 104, 97, 100, 32, 105, 116, 32, 98, 101, 102, 111, 114, 101>>>>,
    \* line 544: '第一次': 'First time'
    <<<<31532, 19968, 27425>>, <<70, 105, 114, 115, 116, 32, 116, 105, 109, 101>>>>,
    \* line 545: '家族史': 'Family history'
    <<<<23478, 26063, 21490>>, <<70, 97, 109, 105, 108, 121, 32, 104, 105, 115, 116, 111, 114, 121>>>>,
    \* line 546: '遺傳': 'Hereditary'
    <<<<36986, 20659>>, <<72, 101, 114, 101, 100, 105, 116, 97, 114, 121>>>>,
    \* line 547: '高血壓': 'High blood pressure'
    <<<<39640, 34880, 22739>>, <<72, 105, 103, 104, 32, 98, 108, 111, 111, 100, 32, 112, 114, 101, 115, 115, 117, 114, 101>>>>,
    \* line 548: '糖尿病': 'Diabetes'
    <<<<31958, 23615, 30149>>, <<68, 105, 97, 98, 101, 116, 101, 115>>>>,
    \* line 549: '心臟病': 'Heart disease'
    <<<<24515, 33247, 30149>>, <<72, 101, 97, 114, 116, 32, 100, 105, 115, 101, 97, 115, 101>>>>,
    \* line 550: '哮喘': 'Asthma'
    <<<<21742, 21912>>, <<65, 115, 116, 104, 109, 97>>>>,
    \* line 551: '過敏史': 'Allergy history'
    <<<<36942, 25935, 21490>>, <<65, 108, 108, 101, 114, 103, 121, 32, 104, 105, 115, 116, 111, 114, 121>>>>,
    \* line 552: '藥物過敏': 'Drug allergy'
    <<<<34277, 29289, 36942, 25935>>, <<68, 114, 117, 103, 32, 97, 108, 108, 101, 114, 103, 121>>>>,
    \* line 553: '食物過敏': 'Food allergy'
    <<<<39135, 29289, 36942, 25935>>, <<70, 111, 111, 100, 32, 97, 108, 108, 101, 114, 103, 121>>>>,
    \* line 554: '懷孕': 'Pregnant'
    <<<<25079, 23381>>, <<80, 114, 101, 103, 110, 97, 110, 116>>>>,
    \* line 555: '懷孕咗': 'I am pregnant'
    <<<<25079, 23381, 21655>>, <<73, 32, 97, 109, 32, 112, 114, 101, 103, 110, 97, 110, 116>>>>,
    \* line 556: '嚟M': 'Menstruation'
    <<<<22175, 77>>, <<77, 101, 110, 115, 116, 114, 117, 97, 116, 105, 111, 110>>>>,
    \* line 557: '生理期': 'Menstrual period'
    <<<<29983, 29702, 26399>>, <<77, 101, 110, 115, 116, 114, 117, 97, 108, 32, 112, 101, 114, 105, 111, 100>>>>,
    \* line 558: '食藥': 'Taking medication'
    <<<<39135, 34277>>, <<84, 97, 107, 105, 110, 103, 32, 109, 101, 100, 105, 99, 97, 116, 105, 111, 110>>>>,
    \* line 559: '而家食緊藥': 'Currently taking medication'
    <<<<32780, 23478, 39135, 32202, 34277>>, <<67, 117, 114, 114, 101, 110, 116, 108, 121, 32, 116, 97, 107, 105, 110, 103, 32, 109, 101, 100, 105, 99, 97, 116, 105, 111, 110>>>>,
    \* line 560: '冇食藥': 'Not taking medication'
    <<<<20871, 39135, 34277>>, <<78, 111, 116, 32, 116, 97, 107, 105, 110, 103, 32, 109, 101, 100, 105, 99, 97, 116, 105, 111, 110>>>>,
    \* line 561: '準時食藥': 'Taking medication on time'
    <<<<28310, 26178, 39135, 34277>>, <<84, 97, 107, 105, 110, 103, 32, 109, 101, 100, 105, 99, 97, 116, 105, 111, 110, 32, 111, 110, 32, 116, 105, 109, 101>>>>,
    \* line 562: '唔記得食藥': 'Forgot to take medication'
    <<<<21780, 35352, 24471, 39135, 34277>>, <<70, 111, 114, 103, 111, 116, 32, 116, 111, 32, 116, 97, 107, 101, 32, 109, 101, 100, 105, 99, 97, 116, 105, 111, 110>>>>,
    \* line 563: '手術': 'Surgery'
    <<<<25163, 34899>>, <<83, 117, 114, 103, 101, 114, 121>>>>,
    \* line 564: '做過手術': 'Had surgery'
    <<<<20570, 36942, 25163, 34899>>, <<72, 97, 100, 32, 115, 117, 114, 103, 101, 114, 121>>>>,
    \* line 565: '住院': 'Hospitalized'
    <<<<20303, 38498>>, <<72, 111, 115, 112, 105, 116, 97, 108, 105, 122, 101, 100>>>>,
    \* line 566: '住過院': 'Was hospitalized'
    <<<<20303, 36942, 38498>>, <<87, 97, 115, 32, 104, 111, 115, 112, 105, 116, 97, 108, 105, 122, 101, 100>>>>,
    \* line 567: '身體檢查': 'Physical examination'
    <<<<36523, 39636, 27298, 26597>>, <<80, 104, 121, 115, 105, 99, 97, 108, 32, 101, 120, 97, 109, 105, 110, 97, 116, 105, 111, 110>>>>,
    \* line 568: '檢查': 'Examination'
    <<<<27298, 26597>>, <<69, 120, 97, 109, 105, 110, 97, 116, 105, 111, 110>>>>,
    \* line 569: '化驗': 'Lab test'
    <<<<21270, 39511>>, <<76, 97, 98, 32, 116, 101, 115, 116>>>>,
    \* line 570: '照X光': 'X-ray'
    <<<<29031, 88, 20809>>, <<88, 45, 114, 97, 121>>>>,
    \* line 571: 'CT': 'CT scan'
    <<<<67, 84>>, <<67, 84, 32, 115, 99, 97, 110>>>>,
    \* line 572: 'B超': 'Ultrasound'
    <<<<66, 36229>>, <<85, 108, 116, 114, 97, 115, 111, 117, 110, 100>>>>,
    \* line 573: '多謝': 'Thank you'
    <<<<22810, 35613>>, <<84, 104, 97, 110, 107, 32, 121, 111, 117>>>>,
    \* line 574: '再見': 'Goodbye'
    <<<<20877, 35211>>, <<71, 111, 111, 100, 98, 121, 101>>>>,
    \* line 575: '係': 'Yes'
    <<<<20418>>, <<89, 101, 115>>>>,
    \* line 576: '唔係': 'No'
    <<<<21780, 20418>>, <<78, 111>>>>,
    \* line 577: '我唔知': 'I don't know'
    <<<<25105, 21780, 30693>>, <<73, 32, 100, 111, 110, 39, 116, 32, 107, 110, 111, 119>>>>,
    \* line 578: '唔舒服': 'Not feeling well'
    <<<<21780, 33298, 26381>>, <<78, 111, 116, 32, 102, 101, 101, 108, 105, 110, 103, 32, 119, 101, 108, 108>>>>,
    \* line 579: '好辛苦': 'Very uncomfortable'
    <<<<22909, 36763, 33510>>, <<86, 101, 114, 121, 32, 117, 110, 99, 111, 109, 102, 111, 114, 116, 97, 98, 108, 101>>>>,
    \* line 582: '儿歌喉痛': 'My throat hurts'
    <<<<20799, 27468, 21897, 30171>>, <<77, 121, 32, 116, 104, 114, 111, 97, 116, 32, 104, 117, 114, 116, 115>>>>
  >>

mockTranslations(targetLanguage) ==
  IF targetLanguage = "mandarin"
    THEN ObjectLiteral(mockTranslationsMandarinLiteral)
    ELSE ObjectLiteral(mockTranslationsCantoneseLiteral)

\* The sections of the literal of mockChineseToEnglish, as its comments name
\* them: the Mandarin phrases, the Cantonese phrases ('... (Cantonese)'), and
\* the partial words at the end.
MandarinSection == SubSeq(mockChineseToEnglishLiteral, 1, 172)
CantoneseSection == SubSeq(mockChineseToEnglishLiteral, 173, 343)
PartialWordsSection == SubSeq(mockChineseToEnglishLiteral, 344, 344)

\* A table of the Mandarin phrases and the partial words alone.
mockChineseToEnglishOfMandarinOnly == ObjectLiteral(MandarinSection \o PartialWordsSection)

mockChineseToEnglish == ObjectLiteral(mockChineseToEnglishLiteral)

----------------------------------------------------------------------------
(* Offline translation.                                                     *)

\* The entries left in insertion order (the sort dropped).
SortNotDone(entries) == entries

\* entries.sort(([a], [b]) => b.length - a.length): longest key first; the
\* sort is stable, so keys of equal length keep their order.
SortByLengthDesc(entries) ==
  LET lens == {Len(entries[i].key) : i \in 1..Len(entries)}
      maxLen == IF lens = {} THEN 0 ELSE CHOOSE n \in lens : \A m \in lens : m <= n
      OfLength(n) == SelectSeq(entries, LAMBDA e : Len(e.key) = n)
      Down[n \in 0..maxLen] ==
        IF n = 0 THEN OfLength(0) ELSE OfLength(n) \o Down[n - 1]
  IN Down[maxLen]

\* The for..of loop with break over sortedPhrases: the first entry among
\* those whose key passes the test of the loop (hits holds their positions).
FirstHit(sortedPhrases, hits) ==
  IF hits = {} THEN [found |-> FALSE, key |-> <<>>, value |-> <<>>]
  ELSE LET i == CHOOSE h \in hits : \A g \in hits : h <= g
       IN [found |-> TRUE, key |-> sortedPhrases[i].key,
           value |-> sortedPhrases[i].value]

\* '（请提供更详细的翻译）'
MandarinPlaceholderSuffix ==
  <<65288, 35831, 25552, 20379, 26356, 35814, 32454, 30340, 32763, 35793, 65289>>
\* '（請提供更詳細嘅翻譯）'
CantonesePlaceholderSuffix ==
  <<65288, 35531, 25552, 20379, 26356, 35443, 32048, 22021, 32763, 35695, 65289>>
\* '"'
EnglishPlaceholderPrefix == <<34>>
\* '" (Please provide proper English translation)'
EnglishPlaceholderSuffix ==
  <<34, 32, 40, 80, 108, 101, 97, 115, 101, 32, 112, 114, 111, 118, 105, 100, 101, 32,
    112, 114, 111, 112, 101, 114, 32, 69, 110, 103, 108, 105, 115, 104, 32, 116, 114,
    97, 110, 115, 108, 97, 116, 105, 111, 110, 41>>

\* The to_chinese branch without its exact lookup: every text goes through
\* the scan.
DemoToChineseByScanOnly(text, targetLanguage) ==
  LET table == mockTranslations(targetLanguage)
      lowerText == Trim(ToLowerCase(text))
      sortedPhrases == SortByLengthDesc(ObjectEntries(table))
      hit == FirstHit(sortedPhrases,
                      {i \in 1..Len(sortedPhrases) :
                         RegExpTest(sortedPhrases[i].key, lowerText)})
      fallback == IF targetLanguage = "mandarin"
                    THEN Str(text \o MandarinPlaceholderSuffix)
                    ELSE Str(text \o CantonesePlaceholderSuffix)
  IN [translation |-> IF hit.found THEN Str(hit.value) ELSE fallback,
      exact |-> FALSE,
      matched |-> IF hit.found THEN hit.key ELSE <<>>]

\* The to_chinese branch of demo mode: exact lookup of the lower-cased trimmed
\* text, then the whole-word scan longest key first, then the placeholder.
\* matched is the phrase the scan logs ("Matched phrase: ...").
DemoToChinese(text, targetLanguage) ==
  LET table == mockTranslations(targetLanguage)
      lowerText == Trim(ToLowerCase(text))
      exact == GetProperty(table, lowerText)
      sortedPhrases == SortByLengthDesc(ObjectEntries(table))
      hit == FirstHit(sortedPhrases,
                      {i \in 1..Len(sortedPhrases) :
                         RegExpTest(sortedPhrases[i].key, lowerText)})
      scanned == IF ~Truthy(exact) /\ hit.found THEN Str(hit.value) ELSE exact
      fallback == IF targetLanguage = "mandarin"
                    THEN Str(text \o MandarinPlaceholderSuffix)
                    ELSE Str(text \o CantonesePlaceholderSuffix)
  IN [translation |-> IF ~Truthy(scanned) THEN fallback ELSE scanned,
      exact |-> Truthy(exact),
      matched |-> IF ~Truthy(exact) /\ hit.found THEN hit.key ELSE <<>>]

\* The to_english branch without its scan: the exact lookup or the placeholder.
DemoToEnglishWithoutScan(text) ==
  LET exact == GetProperty(mockChineseToEnglish, Trim(text))
      fallback == Str(EnglishPlaceholderPrefix \o text \o EnglishPlaceholderSuffix)
  IN [translation |-> IF ~Truthy(exact) THEN fallback ELSE exact,
      exact |-> Truthy(exact),
      matched |-> <<>>]

\* The to_english branch of demo mode: exact lookup of the trimmed text, then
\* the containment scan of the raw text longest key first, then the placeholder.
DemoToEnglish(text) ==
  LET exact == GetProperty(mockChineseToEnglish, Trim(text))
      sortedPhrases == SortByLengthDesc(ObjectEntries(mockChineseToEnglish))
      hit == FirstHit(sortedPhrases,
                      {i \in 1..Len(sortedPhrases) :
                         Includes(text, sortedPhrases[i].key)})
      scanned == IF ~Truthy(exact) /\ hit.found THEN Str(hit.value) ELSE exact
      fallback == Str(EnglishPlaceholderPrefix \o text \o EnglishPlaceholderSuffix)
  IN [translation |-> IF ~Truthy(scanned) THEN fallback ELSE scanned,
      exact |-> Truthy(exact),
      matched |-> IF ~Truthy(exact) /\ hit.found THEN hit.key ELSE <<>>]

----------------------------------------------------------------------------
(* Request validation and responses.                                        *)

\* A body field the request leaves out; destructuring gives it its default.
Omitted == "(omitted)"

\* A default that is the dialect of an earlier request when there was one.
DefaultFromEarlierRequest(value, default) ==
  IF value # Omitted THEN value
  ELSE IF default = "mandarin" /\ earlier.endpoint # "none"
            /\ earlier.body.targetLanguage # Omitted
    THEN earlier.body.targetLanguage
  ELSE default

\* const { x = d } = req.body
Default(value, default) == IF value = Omitted THEN default ELSE value

\* if (text.length > 2000) of /api/translate
TranslateMaxLength == 2000
\* if (text.length > 1000) of /api/audio
AudioMaxLength == 1000

\* !text || typeof text !== 'string' || text.trim().length === 0
InvalidText(text) ==
  \/ ~Truthy(text)
  \/ text.type # "string"
  \/ Len(Trim(text.chars)) = 0

\* The comparison written >= instead of >.
TextTooLongInclusive(text, limit) == Len(text.chars) >= limit

\* text.length > limit
TextTooLong(text, limit) == Len(text.chars) > limit

\* !['mandarin', 'cantonese'].includes(targetLanguage)
InvalidLanguage(targetLanguage) == targetLanguage \notin {"mandarin", "cantonese"}

\* An error body without its details.
ErrorResponseWithoutDetails(status, error, details) ==
  [status |-> status, error |-> error]

\* res.status(status).json({ error, details })
ErrorResponse(status, error, details) ==
  [status |-> status, error |-> error, details |-> details]

\* The three validation steps of /api/translate, in order: <<>> when the body
\* passes, else the one 400 response.
TranslateValidation(text, targetLanguage) ==
  IF InvalidText(text)
    THEN <<ErrorResponse(400, "Valid text is required",
                         "Please provide non-empty text to translate")>>
  ELSE IF TextTooLong(text, TranslateMaxLength)
    THEN <<ErrorResponse(400, "Text too long",
                         "Please limit input to 2000 characters or less")>>
  ELSE IF InvalidLanguage(targetLanguage)
    THEN <<ErrorResponse(400, "Invalid target language",
                         "Supported languages: mandarin, cantonese")>>
  ELSE <<>>

\* The validation of /api/audio with the length compared first.
AudioValidationLengthFirst(text, targetLanguage) ==
  IF text.type = "string" /\ TextTooLong(text, AudioMaxLength)
    THEN <<ErrorResponse(400, "Text too long for audio generation",
                         "Please limit text to 1000 characters or less")>>
  ELSE IF InvalidText(text)
    THEN <<ErrorResponse(400, "Valid text is required for audio generation",
                         "Please provide non-empty text to convert to speech")>>
  ELSE IF InvalidLanguage(targetLanguage)
    THEN <<ErrorResponse(400, "Invalid target language for audio",
                         "Supported languages: mandarin, cantonese")>>
  ELSE <<>>

\* The three validation steps of /api/audio.
AudioValidation(text, targetLanguage) ==
  IF InvalidText(text)
    THEN <<ErrorResponse(400, "Valid text is required for audio generation",
                         "Please provide non-empty text to convert to speech")>>
  ELSE IF TextTooLong(text, AudioMaxLength)
    THEN <<ErrorResponse(400, "Text too long for audio generation",
                         "Please limit text to 1000 characters or less")>>
  ELSE IF InvalidLanguage(targetLanguage)
    THEN <<ErrorResponse(400, "Invalid target language for audio",
                         "Supported languages: mandarin, cantonese")>>
  ELSE <<>>

\* const translationDirection = currentSpeaker === 'doctor' ? 'to_chinese' : 'to_english'
TranslationDirection(currentSpeaker) ==
  IF currentSpeaker = "doctor" THEN "to_chinese" ELSE "to_english"

\* The demo branch of /api/translate: the translation of the chosen direction.
DemoTranslate(text, targetLanguage, translationDirection) ==
  IF translationDirection = "to_chinese"
    THEN DemoToChinese(text.chars, targetLanguage)
    ELSE DemoToEnglish(text.chars)

\* res.json({ translation, originalText, targetLanguage, translationDirection,
\* demoMode: true }) of demo mode.
DemoTranslateResponse(translation, text, targetLanguage, translationDirection) ==
  [status |-> 200,
   translation |-> JsonProperty(translation),
   originalText |-> text,
   targetLanguage |-> targetLanguage,
   translationDirection |-> translationDirection,
   demoMode |-> TRUE]

\* An error object: a thrown Error has no code, an upstream error may have one.
ErrorObject(hasCode, code, message) ==
  [null |-> FALSE, hasCode |-> hasCode, code |-> code, message |-> message]

\* let lastError = null
NullError == [null |-> TRUE, hasCode |-> FALSE, code |-> 0, message |-> ""]

\* A live handler that falls back on the phrase table when the model call
\* fails.
TranslateCompletionWithPhraseTableFallback(outcome, text, targetLanguage) ==
  IF outcome.kind = "resolve" /\ outcome.content.type = "string"
    THEN [status |-> 200,
          translation |-> Str(Trim(outcome.content.chars)),
          original |-> text,
          targetLanguage |-> targetLanguage,
          timestamp |-> "toISOString"]
  ELSE DemoTranslateResponse(DemoTranslate(text, targetLanguage, "to_chinese").translation,
                             text, targetLanguage, "to_chinese")

\* A catch that hands the upstream message to the caller, as the catch of
\* /api/voices does with details: error.message.
TranslateCompletionWithUpstreamDetails(outcome, text, targetLanguage) ==
  IF outcome.kind = "resolve" /\ outcome.content.type = "string"
    THEN [status |-> 200,
          translation |-> Str(Trim(outcome.content.chars)),
          original |-> text,
          targetLanguage |-> targetLanguage,
          timestamp |-> "toISOString"]
  ELSE [status |-> 500, error |-> "Translation failed", details |-> outcome.message]

\* The part of the live /api/translate handler after the await, catch included:
\* the one response it sends.
TranslateCompletion(outcome, text, targetLanguage) ==
  IF outcome.kind = "resolve" /\ outcome.content.type = "string"
    THEN [status |-> 200,
          translation |-> Str(Trim(outcome.content.chars)),
          original |-> text,
          targetLanguage |-> targetLanguage,
          timestamp |-> "toISOString"]
  ELSE IF outcome.kind = "reject" /\ outcome.code = "insufficient_quota"
    THEN ErrorResponse(429, "Translation service temporarily unavailable",
                       "Please try again in a moment")
  ELSE IF outcome.kind = "reject" /\ outcome.code = "rate_limit_exceeded"
    THEN ErrorResponse(429, "Too many requests",
                       "Please wait a moment before trying again")
  ELSE ErrorResponse(500, "Translation failed", "Unable to process translation request")

----------------------------------------------------------------------------
(* Live synthesis: the voice cascade.                                       *)

\* const voiceConfigs = { mandarin: {...}, cantonese: {...} }; a voice name of
\* "" stands for name: null (the default voice of the language code).
voiceConfigs(targetLanguage) ==
  IF targetLanguage = "mandarin"
    THEN [languageCode |-> "zh-CN",
          voiceOptions |-> << [name |-> "zh-CN-Neural2-A", type |-> "Neural2"],
                              [name |-> "zh-CN-Wavenet-A", type |-> "Wavenet"],
                              [name |-> "", type |-> "Standard"] >>]
    ELSE [languageCode |-> "zh-HK",
          voiceOptions |-> << [name |-> "zh-HK-Neural2-A", type |-> "Neural2"],
                              [name |-> "zh-HK-HiuMaan", type |-> "Premium"],
                              [name |-> "zh-HK-HiuGaai", type |-> "Standard"],
                              [name |-> "", type |-> "Basic"] >>]

\* A Buffer (Uint8Array) holding the bytes; an object, so always truthy.
BufferValue(bytes) == [type |-> "buffer", chars |-> bytes]

\* The code unit of the base64 digit d.
Base64Digit(d) ==
  IF d < 26 THEN 65 + d
  ELSE IF d < 52 THEN 97 + (d - 26)
  ELSE IF d < 62 THEN 48 + (d - 52)
  ELSE IF d = 62 THEN 43 ELSE 47

\* Buffer.prototype.toString('base64').
Base64(bytes) ==
  LET n == Len(bytes)
      groups == (n + 2) \div 3
      Byte(i) == IF i <= n THEN bytes[i] ELSE 0
      Char(k) ==
        LET g == (k - 1) \div 4
            j == (k - 1) % 4
            b1 == Byte(3 * g + 1)
            b2 == Byte(3 * g + 2)
            b3 == Byte(3 * g + 3)
        IN IF j = 0 THEN Base64Digit(b1 \div 4)
           ELSE IF j = 1 THEN Base64Digit((b1 % 4) * 16 + b2 \div 16)
           ELSE IF j = 2
             THEN IF 3 * g + 2 > n THEN 61 ELSE Base64Digit((b2 % 16) * 4 + b3 \div 64)
           ELSE IF 3 * g + 3 > n THEN 61 ELSE Base64Digit(b3 % 64)
  IN [k \in 1..(4 * groups) |-> Char(k)]

\* response.audioContent.toString('base64'): base64 of a Buffer; a string is
\* returned as it is (String.prototype.toString takes no argument).
AudioToString(audioContent) ==
  IF audioContent.type = "buffer" THEN Base64(audioContent.chars) ELSE audioContent.chars

\* The body of the inner try for one voice option, once synthesizeSpeech has
\* settled: either the error the inner catch receives, or the audio string.
VoiceAttempt(outcome) ==
  IF outcome.kind = "reject"
    THEN [threw |-> TRUE, error |-> outcome.error, audio |-> <<>>]
  ELSE IF ~Truthy(outcome.audioContent)
    THEN [threw |-> TRUE,
          error |-> ErrorObject(FALSE, 0, "No audio content received from TTS service"),
          audio |-> <<>>]
  ELSE [threw |-> FALSE, error |-> NullError, audio |-> AudioToString(outcome.audioContent)]

\* voiceType: `${voiceOption.type} (${targetLanguage})`
VoiceTypeLabel(voiceOptions, index, targetLanguage) ==
  voiceOptions[index].type \o " (" \o targetLanguage \o ")"

\* duration: Math.ceil(text.length / 8)
Duration(text) == (Len(text.chars) + 7) \div 8

\* res.json({ audio, contentType, voiceType, language, duration, timestamp })
AudioResponse(audio, voiceType, text, targetLanguage) ==
  [status |-> 200,
   audio |-> Str(audio),
   contentType |-> "audio/mp3",
   voiceType |-> voiceType,
   language |-> targetLanguage,
   duration |-> Duration(text),
   timestamp |-> "toISOString"]

\* The first error kept instead of the latest.
KeepFirstError(previous, voiceError) == IF previous.null THEN voiceError ELSE previous

\* catch (voiceError) { lastError = voiceError; continue; }
CatchVoiceError(previous, voiceError) == voiceError

\* The loop skipping a candidate.
SkipVoiceIndex(index) == index + 2

\* The loop trying the same candidate again.
RetryVoiceIndex(index) == index

\* The loop going back to the first candidate after the second.
WrapVoiceIndex(index) == (index % 2) + 1

\* The for..of loop advances to the next element of config.voiceOptions.
NextVoiceIndex(index) == index + 1

\* The loop without its break.
ContinueAfterSuccess == FALSE

\* audioGenerated = true; break;
BreakAfterSuccess == TRUE

\* throw lastError || new Error('All voice options failed')
CascadeError(error) ==
  IF error.null THEN ErrorObject(FALSE, 0, "All voice options failed") ELSE error

\* An outer catch without the branch of code 8 (RESOURCE_EXHAUSTED).
AudioErrorResponseWithoutQuotaBranch(error) ==
  IF error.hasCode /\ error.code = 3
    THEN ErrorResponse(400, "Invalid text for audio generation",
                       "The text may contain unsupported characters or formatting")
  ELSE IF error.hasCode /\ error.code = 7
    THEN ErrorResponse(403, "Audio service not available",
                       "Text-to-speech service access is not configured")
  ELSE ErrorResponse(500, "Audio generation failed", "Unable to convert text to speech")

\* The outer catch of /api/audio: the status and body chosen from error.code.
AudioErrorResponse(error) ==
  IF error.hasCode /\ error.code = 3
    THEN ErrorResponse(400, "Invalid text for audio generation",
                       "The text may contain unsupported characters or formatting")
  ELSE IF error.hasCode /\ error.code = 7
    THEN ErrorResponse(403, "Audio service not available",
                       "Text-to-speech service access is not configured")
  ELSE IF error.hasCode /\ error.code = 8
    THEN ErrorResponse(429, "Audio service temporarily unavailable",
                       "Please try again in a moment")
  ELSE ErrorResponse(500, "Audio generation failed", "Unable to convert text to speech")

\* A demo response whose audio is an empty string instead of null.
DemoAudioResponseWithEmptyAudio(text, targetLanguage) ==
  [status |-> 200,
   audio |-> Str(<<>>),
   message |-> <<"Demo mode: Audio would be generated for", Substring0(text.chars, 30),
                 Len(text.chars) > 30>>,
   targetLanguage |-> targetLanguage,
   demoMode |-> TRUE]

\* res.json({ audio: null, message, targetLanguage, demoMode: true })
DemoAudioResponse(text, targetLanguage) ==
  [status |-> 200,
   audio |-> Null,
   message |-> <<"Demo mode: Audio would be generated for", Substring0(text.chars, 30),
                 Len(text.chars) > 30>>,
   targetLanguage |-> targetLanguage,
   demoMode |-> TRUE]

----------------------------------------------------------------------------
(* The requests and upstream replies the model draws from.                  *)

\* How many pieces a generated English text is put together from.
MaxPieces == 3

\* Concatenation of a sequence of code-unit sequences.
Concat(parts) ==
  LET Upto[n \in 0..Len(parts)] == IF n = 0 THEN <<>> ELSE Upto[n - 1] \o parts[n]
  IN Upto[Len(parts)]

\* Words, fragments of words and separators: 'hi', 't', 's', ' ',
\* 'take this medication', ' twice daily', ' with food', '.'
Pieces ==
  { <<104, 105>>, <<116>>, <<115>>, <<32>>,
    <<116, 97, 107, 101, 32, 116, 104, 105, 115, 32, 109, 101, 100, 105, 99, 97, 116,
      105, 111, 110>>,
    <<32, 116, 119, 105, 99, 101, 32, 100, 97, 105, 108, 121>>,
    <<32, 119, 105, 116, 104, 32, 102, 111, 111, 100>>,
    <<46>> }

\* Every text of at most MaxPieces pieces ('this' is 't' 'hi' 's').
GeneratedTexts ==
  {Concat(parts) : parts \in UNION {[1..n -> Pieces] : n \in 0..MaxPieces}}

\* 'this is fine'
ThisIsFine == <<116, 104, 105, 115, 32, 105, 115, 32, 102, 105, 110, 101>>
\* 'Take this medication twice daily with food.'
TakeThisMedicationSentence ==
  <<84, 97, 107, 101, 32, 116, 104, 105, 115, 32, 109, 101, 100, 105, 99, 97, 116, 105,
    111, 110, 32, 116, 119, 105, 99, 101, 32, 100, 97, 105, 108, 121, 32, 119, 105, 116,
    104, 32, 102, 111, 111, 100, 46>>
\* 'constructor'
ConstructorText == <<99, 111, 110, 115, 116, 114, 117, 99, 116, 111, 114>>
\* 'xyz123'
Xyz123 == <<120, 121, 122, 49, 50, 51>>

\* Texts taken from the scenarios: 'hello', 'HELLO', 'xyz123', the medication
\* sentence, 'this is fine', 'constructor', 'toString', '頭痛', '我偏頭痛', '痛',
\* '你好', the empty string and a blank one.
ScenarioTexts ==
  { <<104, 101, 108, 108, 111>>, <<72, 69, 76, 76, 79>>, Xyz123,
    TakeThisMedicationSentence, ThisIsFine, ConstructorText,
    <<116, 111, 83, 116, 114, 105, 110, 103>>,
    <<38957, 30171>>, <<25105, 20559, 38957, 30171>>, <<30171>>, <<20320, 22909>>,
    <<>>, <<32, 32, 32>> }

\* n times the code unit c.
Repeat(c, n) == [i \in 1..n |-> c]

\* Texts at the length limit: 'x' or ' ' repeated up to and just over the
\* limit, and a text of the limit's length with one leading space more.
BoundaryTexts(limit) ==
  {Repeat(c, n) : c \in {120, 32}, n \in {limit, limit + 1}}
    \cup {<<32>> \o Repeat(120, limit)}

\* What a body can hold as text besides a string: nothing, null or a number.
NonStringValues == {Undefined, Null, NumberValue}

LanguageValues == {Omitted, "mandarin", "cantonese", "english"}
SpeakerValues == {Omitted, "doctor", "patient", "nurse"}

\* Bodies of POST /api/translate: the scenario texts with every language and
\* speaker, the texts at the length limit, and the generated English texts as
\* a doctor's.
TranslateBodies ==
  [text : {Str(t) : t \in ScenarioTexts} \cup NonStringValues,
   targetLanguage : LanguageValues, currentSpeaker : SpeakerValues]
    \cup [text : {Str(t) : t \in BoundaryTexts(TranslateMaxLength)},
          targetLanguage : {"mandarin", "english"}, currentSpeaker : {"doctor", "nurse"}]
    \cup [text : {Str(t) : t \in GeneratedTexts},
          targetLanguage : {"mandarin", "cantonese"}, currentSpeaker : {"doctor"}]

\* Bodies of POST /api/audio.
AudioBodies ==
  [text : {Str(t) : t \in ScenarioTexts \cup BoundaryTexts(AudioMaxLength)}
            \cup NonStringValues,
   targetLanguage : LanguageValues]

\* What the upstream says in the message of the error of a code.
UpstreamMessage(code) ==
  IF code = "insufficient_quota" THEN "You exceeded your current quota"
  ELSE IF code = "rate_limit_exceeded" THEN "Rate limit reached for gpt-4 in organization org-1"
  ELSE IF code = "invalid_api_key" THEN "Incorrect API key provided: sk-proj-1"
  ELSE "connect ECONNREFUSED"

\* How openai.chat.completions.create can settle: a reply whose content is a
\* string (' 你好 \n', or empty) or null, or a rejection with an error code.
OpenAIOutcomes ==
  {[kind |-> "resolve", content |-> c, code |-> "", message |-> ""] :
     c \in {Str(<<32, 20320, 22909, 32, 10>>), Str(<<>>), Null}}
    \cup {[kind |-> "reject", content |-> Null, code |-> c, message |-> UpstreamMessage(c)] :
            c \in {"insufficient_quota", "rate_limit_exceeded", "invalid_api_key", ""}}

\* How ttsClient.synthesizeSpeech can settle: a reply whose audioContent is a
\* Buffer with bytes ('ID3'), an empty Buffer, a base64 string, an empty string
\* or null (the declared type is Uint8Array | string | null), or a rejection
\* with a gRPC status code or none.
TTSOutcomes ==
  {[kind |-> "resolve", audioContent |-> a, error |-> NullError] :
     a \in {BufferValue(<<73, 68, 51>>), BufferValue(<<>>), Str(<<83, 85, 81, 122>>),
            Str(<<>>), Null}}
    \cup {[kind |-> "reject", audioContent |-> Null, error |-> ErrorObject(TRUE, c, "rpc")] :
            c \in {3, 7, 8, 13}}
    \cup {[kind |-> "reject", audioContent |-> Null,
           error |-> ErrorObject(FALSE, 0, "network")]}

----------------------------------------------------------------------------
(* Startup.                                                                 *)

\* const requiredEnvVars = ['OPENAI_API_KEY', 'GOOGLE_APPLICATION_CREDENTIALS']
requiredEnvVars == <<"OPENAI_API_KEY", "GOOGLE_APPLICATION_CREDENTIALS">>

\* 'your_openai_api_key_here'
PlaceholderKey ==
  <<121, 111, 117, 114, 95, 111, 112, 101, 110, 97, 105, 95, 97, 112, 105, 95,
    107, 101, 121, 95, 104, 101, 114, 101>>

\* The two server files: part_001 has demo mode, server/server.js is live-only.
DemoCapable == "part_001"
LiveOnly == "server.js"

\* A filter that looks at the model credential alone.
MissingOpenAIKeyOnly(file, environment) ==
  SelectSeq(<<"OPENAI_API_KEY">>, LAMBDA varName : ~Truthy(environment[varName]))

\* const missingEnvVars = requiredEnvVars.filter(varName => !process.env[varName]
\*   || process.env[varName] === 'your_openai_api_key_here')
\* and, in server/server.js, requiredEnvVars.filter(varName => !process.env[varName]).
missingEnvVars(file, environment) ==
  SelectSeq(requiredEnvVars,
            LAMBDA varName :
              \/ ~Truthy(environment[varName])
              \/ file = DemoCapable /\ environment[varName] = Str(PlaceholderKey))

\* What a required variable can hold after dotenv.config(): nothing, the empty
\* string of a line `NAME=`, the placeholder of the template, or a value
\* ('sk-proj-1', './server/google-credentials.json').
EnvValues(varName) ==
  {Undefined, Str(<<>>), Str(PlaceholderKey),
   IF varName = "OPENAI_API_KEY"
     THEN Str(<<115, 107, 45, 112, 114, 111, 106, 45, 49>>)
     ELSE Str(<<46, 47, 115, 101, 114, 118, 101, 114, 47, 103, 111, 111, 103, 108,
                101, 45, 99, 114, 101, 100, 101, 110, 116, 105, 97, 108, 115, 46,
                106, 115, 111, 110>>)}

Environments == [OPENAI_API_KEY : EnvValues("OPENAI_API_KEY"),
                 GOOGLE_APPLICATION_CREDENTIALS : EnvValues("GOOGLE_APPLICATION_CREDENTIALS")]

\* The steps startServer has completed when the server listens.
StartupSteps(demo) ==
  IF demo THEN <<"listening">>
  ELSE <<"OpenAI API connection verified", "Google Cloud TTS connection verified",
         "listening">>

----------------------------------------------------------------------------
(* The server.                                                              *)

NoRequest == [endpoint |-> "none", body |-> [text |-> Undefined]]

\* No model call has been made, or none has settled.
NoCall == [model |-> "", system |-> [from |-> "", into |-> ""], user |-> Undefined]
NoReply == [kind |-> "none", content |-> Null, code |-> "", message |-> ""]

\* Nothing is remembered of another request.
NoObservation == [endpoint |-> "none", body |-> [text |-> Undefined], answer |-> <<>>]

\* The state of a handler that has not started, whatever the process state.
HandlerAtRest ==
  /\ req = NoRequest
  /\ res = <<>>
  /\ log = <<>>
  /\ voiceIndex = 0
  /\ lastError = NullError
  /\ audioGenerated = FALSE
  /\ openaiCalls = 0
  /\ openaiRequest = NoCall
  /\ openaiReply = NoReply
  /\ ttsCalls = <<>>
  /\ inFlight = 0
  /\ earlier = NoObservation
  /\ concurrent = NoObservation

\* The conversation client as its first render leaves it: the useState and
\* useRef initial values, nothing requested, no session ended.
ClientAtRest ==
  /\ inputText = <<>>
  /\ selectedLanguage = "mandarin"
  /\ activeSpeaker = "doctor"
  /\ sessionStarted = FALSE
  /\ isTranslating = FALSE
  /\ isGeneratingAudio = FALSE
  /\ uiError = ""
  /\ conversationHistory = <<>>
  /\ audioCache = <<>>
  /\ playingMessageId = 0
  /\ audioRef = <<>>
  /\ utterance = <<>>
  /\ clock = 0
  /\ fetches = {}
  /\ timers = {}
  /\ session = 0
  /\ origin = <<>>

\* The process after startup of the server with demo mode: DEMO_MODE is
\* settled by the environment (both variables set, or none), the server
\* listens, no request is being handled.
Init ==
  /\ server = DemoCapable
  /\ env \in {e \in Environments :
                \/ \A varName \in DOMAIN e : e[varName] = Undefined
                \/ Len(missingEnvVars(DemoCapable, e)) = 0}
  /\ DEMO_MODE = (Len(missingEnvVars(server, env)) > 0)
  /\ startup = StartupSteps(DEMO_MODE)
  /\ exitCode = <<>>
  /\ pc = "idle"
  /\ HandlerAtRest
  /\ ClientAtRest

\* The process before the module body runs: either server file, any
\* environment.  DEMO_MODE has no value yet.
InitProcess ==
  /\ server \in {DemoCapable, LiveOnly}
  /\ env \in Environments
  /\ DEMO_MODE = FALSE
  /\ startup = <<>>
  /\ exitCode = <<>>
  /\ pc = "load"
  /\ HandlerAtRest
  /\ ClientAtRest

handlerVars == <<req, res, log, voiceIndex, lastError, audioGenerated, openaiCalls,
                 openaiRequest, openaiReply, ttsCalls, inFlight>>

\* The module body, from dotenv.config() to the call of startServer() and its
\* first await: the environment check (process.exit(1) in the live-only
\* server, DEMO_MODE in the other), the clients (whose constructors may
\* throw), and the first connection test or, in demo mode, app.listen.
LoadModule(clients) ==
  LET missing == missingEnvVars(server, env)
      demo == server = DemoCapable /\ Len(missing) > 0
  IN /\ pc = "load"
     /\ IF server = LiveOnly /\ Len(missing) > 0
          THEN /\ exitCode' = <<1>>
               /\ pc' = "exited"
               /\ UNCHANGED <<DEMO_MODE, startup>>
        ELSE IF ~demo /\ clients = "throws"
          THEN /\ DEMO_MODE' = demo
               /\ exitCode' = <<1>>
               /\ pc' = "exited"
               /\ UNCHANGED startup
        ELSE /\ DEMO_MODE' = demo
             /\ pc' = IF demo THEN "await_listen" ELSE "await_models_list"
             /\ UNCHANGED <<startup, exitCode>>
     /\ UNCHANGED <<server, env, handlerVars, historyVars, clientVars>>

\* await openai.models.list() settles.
ModelsListSettles(ok) ==
  /\ pc = "await_models_list"
  /\ IF ok
       THEN /\ startup' = Append(startup, "OpenAI API connection verified")
            /\ pc' = "await_list_voices"
            /\ UNCHANGED exitCode
       ELSE /\ exitCode' = <<1>>
            /\ pc' = "exited"
            /\ UNCHANGED startup
  /\ UNCHANGED <<server, env, DEMO_MODE, handlerVars, historyVars, clientVars>>

\* A startup that goes on to app.listen whether or not listVoices succeeded.
ListVoicesSettlesIgnoringFailure(ok) ==
  /\ pc = "await_list_voices"
  /\ startup' = IF ok THEN Append(startup, "Google Cloud TTS connection verified")
                ELSE startup
  /\ pc' = "await_listen"
  /\ UNCHANGED <<server, env, exitCode, DEMO_MODE, handlerVars, historyVars, clientVars>>

\* await ttsClient.listVoices({ languageCode: 'zh-CN' }) settles; on success
\* app.listen(PORT) is called.
ListVoicesSettles(ok) ==
  /\ pc = "await_list_voices"
  /\ IF ok
       THEN /\ startup' = Append(startup, "Google Cloud TTS connection verified")
            /\ pc' = "await_listen"
            /\ UNCHANGED exitCode
       ELSE /\ exitCode' = <<1>>
            /\ pc' = "exited"
            /\ UNCHANGED startup
  /\ UNCHANGED <<server, env, DEMO_MODE, handlerVars, historyVars, clientVars>>

\* The listen callback runs, or server.on('error') does (EADDRINUSE or other).
ListenSettles(ok) ==
  /\ pc = "await_listen"
  /\ IF ok
       THEN /\ startup' = Append(startup, "listening")
            /\ pc' = "idle"
            /\ UNCHANGED exitCode
       ELSE /\ exitCode' = <<1>>
            /\ pc' = "exited"
            /\ UNCHANGED startup
  /\ UNCHANGED <<server, env, DEMO_MODE, handlerVars, historyVars, clientVars>>

\* const systemPrompts = { mandarin: `...`, cantonese: `...` }: what each
\* template tells the model to translate from and into.
systemPrompts(targetLanguage) ==
  IF targetLanguage = "mandarin"
    THEN [from |-> "what a doctor says in English", into |-> "Simplified Chinese (Mandarin)"]
    ELSE [from |-> "what a doctor says in English", into |-> "Cantonese"]

\* app.post('/api/translate'), from the request to the response or to the
\* await of the model call.
PostTranslate(body) ==
  LET text == body.text
      targetLanguage == Default(body.targetLanguage, "mandarin")
      currentSpeaker == Default(body.currentSpeaker, "doctor")
      rejected == TranslateValidation(text, targetLanguage)
      translationDirection == TranslationDirection(currentSpeaker)
      demo == DemoTranslate(text, targetLanguage, translationDirection)
  IN /\ pc = "idle"
     /\ req' = [endpoint |-> "translate", body |-> body]
     /\ UNCHANGED <<processVars, historyVars, clientVars, DEMO_MODE, voiceIndex,
                    lastError, audioGenerated, ttsCalls, openaiReply>>
     /\ IF rejected # <<>>
          THEN /\ res' = rejected
               /\ pc' = "done"
               /\ UNCHANGED <<log, openaiCalls, openaiRequest, inFlight>>
        ELSE IF DEMO_MODE
          THEN /\ res' = <<DemoTranslateResponse(demo.translation, text, targetLanguage,
                                                 translationDirection)>>
               /\ log' = IF demo.matched # <<>>
                           THEN <<[event |-> "Matched phrase", phrase |-> demo.matched]>>
                           ELSE IF demo.exact THEN <<>>
                           ELSE <<[event |-> "No match found", phrase |-> <<>>]>>
               /\ pc' = "done"
               /\ UNCHANGED <<openaiCalls, openaiRequest, inFlight>>
        ELSE /\ openaiCalls' = openaiCalls + 1
             /\ openaiRequest' = [model |-> "gpt-4",
                                  system |-> systemPrompts(targetLanguage),
                                  user |-> text]
             /\ inFlight' = inFlight + 1
             /\ pc' = "await_openai"
             /\ UNCHANGED <<res, log>>

\* A handler whose catch only logs the rejection of the model call.
OpenAISettlesLoggingOnly(outcome) ==
  /\ pc = "await_openai"
  /\ inFlight' = inFlight - 1
  /\ openaiReply' = outcome
  /\ res' = IF outcome.kind = "reject" THEN res
            ELSE Append(res, TranslateCompletion(outcome, req.body.text,
                                                 Default(req.body.targetLanguage, "mandarin")))
  /\ pc' = "done"
  /\ UNCHANGED <<processVars, historyVars, clientVars, DEMO_MODE, req, log, voiceIndex,
                 lastError, audioGenerated, openaiCalls, openaiRequest, ttsCalls>>

\* The model call settles: the rest of the live handler, catch included.
OpenAISettles(outcome) ==
  /\ pc = "await_openai"
  /\ inFlight' = inFlight - 1
  /\ openaiReply' = outcome
  /\ res' = Append(res, TranslateCompletion(outcome, req.body.text,
                                            Default(req.body.targetLanguage, "mandarin")))
  /\ pc' = "done"
  /\ UNCHANGED <<processVars, historyVars, clientVars, DEMO_MODE, req, log, voiceIndex,
                 lastError, audioGenerated, openaiCalls, openaiRequest, ttsCalls>>

\* The record of a synthesizeSpeech call that has not settled yet.
PendingCall(index) ==
  [voice |-> index, settled |-> FALSE, outcome |-> "pending", error |-> NullError]

\* What the reply of a voice option was, for the record of calls.
OutcomeName(outcome, attempt) ==
  IF outcome.kind = "reject" THEN "rejected"
  ELSE IF attempt.threw THEN "no audio content"
  ELSE IF attempt.audio = <<>> THEN "empty audio"
  ELSE "audio"

\* app.post('/api/audio'), from the request to the response or to the await of
\* the first voice option's synthesizeSpeech.
PostAudio(body) ==
  LET text == body.text
      targetLanguage == Default(body.targetLanguage, "mandarin")
      rejected == AudioValidation(text, targetLanguage)
  IN /\ pc = "idle"
     /\ req' = [endpoint |-> "audio", body |-> body]
     /\ UNCHANGED <<processVars, historyVars, clientVars, DEMO_MODE, log, lastError,
                    audioGenerated, openaiCalls, openaiRequest, openaiReply>>
     /\ IF rejected # <<>>
          THEN /\ res' = rejected
               /\ pc' = "done"
               /\ UNCHANGED <<voiceIndex, ttsCalls, inFlight>>
        ELSE IF DEMO_MODE
          THEN /\ res' = <<DemoAudioResponse(text, targetLanguage)>>
               /\ pc' = "done"
               /\ UNCHANGED <<voiceIndex, ttsCalls, inFlight>>
        ELSE /\ voiceIndex' = 1
             /\ ttsCalls' = <<PendingCall(1)>>
             /\ inFlight' = inFlight + 1
             /\ pc' = "await_tts"
             /\ UNCHANGED res

\* synthesizeSpeech settles for the current voice option: the rest of the
\* inner try, the inner catch, and either the next option's call or the end of
\* the loop with the throw and the outer catch.
TTSSettles(outcome) ==
  LET targetLanguage == Default(req.body.targetLanguage, "mandarin")
      config == voiceConfigs(targetLanguage)
      attempt == VoiceAttempt(outcome)
      settled == [ttsCalls EXCEPT ![Len(ttsCalls)] =
                    [voice |-> voiceIndex, settled |-> TRUE,
                     outcome |-> OutcomeName(outcome, attempt), error |-> attempt.error]]
      sent == IF attempt.threw THEN res
              ELSE Append(res, AudioResponse(attempt.audio,
                                             VoiceTypeLabel(config.voiceOptions, voiceIndex,
                                                            targetLanguage),
                                             req.body.text, targetLanguage))
      generated == audioGenerated \/ ~attempt.threw
      error == IF attempt.threw THEN CatchVoiceError(lastError, attempt.error) ELSE lastError
      next == NextVoiceIndex(voiceIndex)
      leave == (~attempt.threw /\ BreakAfterSuccess) \/ next > Len(config.voiceOptions)
  IN /\ pc = "await_tts"
     /\ audioGenerated' = generated
     /\ lastError' = error
     /\ IF leave
          THEN /\ res' = IF generated THEN sent
                         ELSE Append(sent, AudioErrorResponse(CascadeError(error)))
               /\ ttsCalls' = settled
               /\ inFlight' = inFlight - 1
               /\ pc' = "done"
               /\ UNCHANGED voiceIndex
          ELSE /\ res' = sent
               /\ voiceIndex' = next
               /\ ttsCalls' = Append(settled, PendingCall(next))
               /\ inFlight' = inFlight
               /\ pc' = "await_tts"
     /\ UNCHANGED <<processVars, historyVars, clientVars, DEMO_MODE, req, log,
                    openaiCalls, openaiRequest, openaiReply>>

\* What a request was answered as far as its own fields decide it: the whole
\* response in demo mode, and in live mode the 400 response of validation or
\* the fact that validation let it pass.
Answer(rejected, sent) ==
  IF rejected # <<>> THEN rejected
  ELSE IF DEMO_MODE THEN sent
  ELSE <<"validated">>

\* The answer of the request whose handler has returned: without an outbound
\* call, what a live handler sent is the 400 response of validation.
AnswerGiven ==
  Answer(IF openaiCalls = 0 /\ ttsCalls = <<>> /\ ~DEMO_MODE THEN res ELSE <<>>, res)

\* Another request arrives while the handler of the current one awaits its
\* upstream call: the synchronous part of the other handler runs, up to its
\* 400 response or its own first await.  It has its own req, res and locals.
ArrivesMeanwhile(endpoint, body) ==
  LET targetLanguage == Default(body.targetLanguage, "mandarin")
      rejected == IF endpoint = "translate"
                    THEN TranslateValidation(body.text, targetLanguage)
                    ELSE AudioValidation(body.text, targetLanguage)
  IN /\ pc \in {"await_openai", "await_tts"}
     /\ concurrent = NoObservation
     /\ concurrent' = [endpoint |-> endpoint, body |-> body,
                       answer |-> Answer(rejected, <<>>)]
     /\ UNCHANGED <<processVars, DEMO_MODE, pc, handlerVars, earlier, clientVars>>

\* The handler has returned; the server is ready for the next request.
ResetHandler ==
  /\ pc = "done"
  /\ pc' = "idle"
  /\ req' = NoRequest
  /\ res' = <<>>
  /\ log' = <<>>
  /\ voiceIndex' = 0
  /\ lastError' = NullError
  /\ audioGenerated' = FALSE
  /\ openaiCalls' = 0
  /\ openaiRequest' = NoCall
  /\ openaiReply' = NoReply
  /\ ttsCalls' = <<>>
  /\ inFlight' = 0
  /\ concurrent' = NoObservation
  /\ UNCHANGED <<processVars, DEMO_MODE, clientVars>>

Finish ==
  /\ ResetHandler
  /\ UNCHANGED earlier

\* The same step, seen by an observer who keeps this request and its answer
\* to compare later requests with.
FinishObserved ==
  /\ ResetHandler
  /\ earlier' = [endpoint |-> req.endpoint, body |-> req.body, answer |-> AnswerGiven]

Next ==
  \/ \E body \in TranslateBodies : PostTranslate(body)
  \/ \E outcome \in OpenAIOutcomes : OpenAISettles(outcome)
  \/ \E body \in AudioBodies : PostAudio(body)
  \/ \E outcome \in TTSOutcomes : TTSSettles(outcome)
  \/ Finish

Spec == Init /\ [][Next]_vars

\* The server when every upstream call made eventually returns or fails: the
\* continuation after await openai.chat.completions.create and after await
\* ttsClient.synthesizeSpeech is run once the promise has settled.
SpecFair ==
  /\ Init
  /\ [][Next]_vars
  /\ WF_vars(\E outcome \in OpenAIOutcomes : OpenAISettles(outcome))
  /\ WF_vars(\E outcome \in TTSOutcomes : TTSSettles(outcome))

\* A few bodies and upstream replies, for the runs that follow the process
\* from its start: 'hello', the Cantonese '頭痛' and the empty text; '你好'
\* and a body without text; a reply and a rejection of each upstream.
FewTranslateBodies ==
  [text : {Str(<<104, 101, 108, 108, 111>>), Str(<<38957, 30171>>), Str(<<>>)},
   targetLanguage : {Omitted, "cantonese", "english"},
   currentSpeaker : {Omitted, "patient"}]

FewAudioBodies ==
  [text : {Str(<<20320, 22909>>), Undefined},
   targetLanguage : {Omitted, "cantonese", "english"}]

FewOpenAIOutcomes ==
  {o \in OpenAIOutcomes :
     \/ o.kind = "resolve" /\ Truthy(o.content)
     \/ o.code = "rate_limit_exceeded"}

FewTTSOutcomes ==
  {o \in TTSOutcomes :
     \/ o.kind = "resolve" /\ o.audioContent = BufferValue(<<73, 68, 51>>)
     \/ o.error.hasCode /\ o.error.code = 8}

\* The process from the start of the module body: startup, then requests one
\* after the other, a second request arriving while one awaits, and an
\* observer who may keep a request and its answer.
NextProcess ==
  \/ \E clients \in {"constructed", "throws"} : LoadModule(clients)
  \/ \E ok \in BOOLEAN : ModelsListSettles(ok)
  \/ \E ok \in BOOLEAN : ListVoicesSettles(ok)
  \/ \E ok \in BOOLEAN : ListenSettles(ok)
  \/ \E body \in FewTranslateBodies : PostTranslate(body)
  \/ \E outcome \in FewOpenAIOutcomes : OpenAISettles(outcome)
  \/ \E body \in FewAudioBodies : PostAudio(body)
  \/ \E outcome \in FewTTSOutcomes : TTSSettles(outcome)
  \/ \E body \in FewTranslateBodies : ArrivesMeanwhile("translate", body)
  \/ \E body \in FewAudioBodies : ArrivesMeanwhile("audio", body)
  \/ Finish
  \/ FinishObserved

SpecProcess == InitProcess /\ [][NextProcess]_vars

----------------------------------------------------------------------------
(* The conversation client (part_003) and the server it talks to.           *)

\* How many times Date.now() is read: each read gives a later value.
MaxClock == 3

\* How many times End Session is pressed.
MaxSessions == 2

\* The server state, which the client's steps leave alone.
serverVars == <<processVars, DEMO_MODE, pc, handlerVars, historyVars>>

\* data.x of a parsed response body: undefined when the body has no such
\* property.
Field(data, name) == IF name \in DOMAIN data THEN data[name] ELSE Undefined

\* What /api/translate can answer to a body: the 400 response of validation,
\* the offline translation, or in live mode what the model call's outcome
\* makes it.
TranslateReplies(body) ==
  LET targetLanguage == Default(body.targetLanguage, "mandarin")
      translationDirection == TranslationDirection(Default(body.currentSpeaker, "doctor"))
      rejected == TranslateValidation(body.text, targetLanguage)
  IN IF rejected # <<>> THEN {rejected[1]}
     ELSE IF DEMO_MODE
       THEN {DemoTranslateResponse(
               DemoTranslate(body.text, targetLanguage, translationDirection).translation,
               body.text, targetLanguage, translationDirection)}
     ELSE {TranslateCompletion(outcome, body.text, targetLanguage) :
             outcome \in FewOpenAIOutcomes}

\* What /api/audio can answer to a body: the 400 response of validation, the
\* offline notice, or in live mode the audio of the first voice option or the
\* error left when every option fails alike.
AudioReplies(body) ==
  LET targetLanguage == Default(body.targetLanguage, "mandarin")
      rejected == AudioValidation(body.text, targetLanguage)
      Live(outcome) ==
        LET attempt == VoiceAttempt(outcome)
        IN IF attempt.threw THEN AudioErrorResponse(CascadeError(attempt.error))
           ELSE AudioResponse(attempt.audio,
                              VoiceTypeLabel(voiceConfigs(targetLanguage).voiceOptions, 1,
                                             targetLanguage),
                              body.text, targetLanguage)
  IN IF rejected # <<>> THEN {rejected[1]}
     ELSE IF DEMO_MODE THEN {DemoAudioResponse(body.text, targetLanguage)}
     ELSE {Live(outcome) : outcome \in FewTTSOutcomes}

\* fetch rejects: the server cannot be reached.
FetchFailed == [status |-> 0, failed |-> TRUE]

\* What the client types: 'hello' and the Cantonese '頭痛'.
ClientTexts == {<<104, 101, 108, 108, 111>>, <<38957, 30171>>}

\* validateInput: the message, or "" for null.
validateInput(text) ==
  IF Len(Trim(text)) = 0 THEN "Please enter some text to translate"
  ELSE IF Len(text) > 2000 THEN "Text is too long. Please limit to 2000 characters."
  ELSE ""

\* The message of the error thrown or caught in handleTranslate for a reply
\* that is not a translation.
TranslateFailure(reply) ==
  IF "failed" \in DOMAIN reply THEN "Failed to fetch"
  ELSE IF reply.status >= 500
    THEN "Server is not running. Please start the backend server first."
  ELSE IF reply.status = 400 THEN "Server error: 400"
  ELSE IF reply.status = 429 THEN "Server error: 429"
  ELSE "Server error"

\* The message startSession puts first in the history.  Every message of the
\* history has the same properties here; those an object lacks are empty.
SystemMessage(id, language) ==
  [id |-> id, type |-> "system", message |-> "Medical interpretation session started",
   timestamp |-> id, language |-> language,
   speaker |-> "", originalText |-> Undefined, translatedText |-> Undefined,
   originalLanguage |-> "", translatedLanguage |-> "",
   hasAudio |-> FALSE, audioGenerated |-> FALSE, demoAudio |-> FALSE]

\* const newMessage = { ... } of addToConversation.
ConversationMessage(id, originalText, translatedText, speaker, language) ==
  [id |-> id, type |-> "conversation", message |-> "", timestamp |-> id, language |-> "",
   speaker |-> speaker, originalText |-> originalText, translatedText |-> translatedText,
   originalLanguage |-> IF speaker = "doctor" THEN "English" ELSE language,
   translatedLanguage |-> IF speaker = "doctor" THEN language ELSE "English",
   hasAudio |-> TRUE, audioGenerated |-> FALSE, demoAudio |-> FALSE]

\* prev.map(msg => msg.id === messageId ? { ...msg, audioGenerated: true,
\* demoAudio } : msg); demoAudio is set only in the offline branch.
MarkAudioGenerated(history, messageId, demo) ==
  [i \in 1..Len(history) |->
     IF history[i].id = messageId
       THEN [history[i] EXCEPT !.audioGenerated = TRUE,
                               !.demoAudio = IF demo THEN TRUE ELSE @]
       ELSE history[i]]

\* { ...prev, [messageId]: value }
WithEntry(prev, messageId, value) ==
  [id \in DOMAIN prev \cup {messageId} |-> IF id = messageId THEN value ELSE prev[id]]

\* handleInputChange: the text area is disabled while a translation is awaited.
TypeText(text) ==
  /\ ~isTranslating
  /\ inputText # text
  /\ inputText' = text
  /\ uiError' = ""
  /\ UNCHANGED <<serverVars, selectedLanguage, activeSpeaker, sessionStarted, isTranslating,
                 isGeneratingAudio, conversationHistory, audioCache, playingMessageId,
                 audioRef, utterance, clock, fetches, timers, session, origin>>

\* handleLanguageChange: the buttons are disabled while a translation or an
\* audio is awaited.
SelectLanguage(language) ==
  /\ ~isTranslating /\ ~isGeneratingAudio
  /\ selectedLanguage # language
  /\ selectedLanguage' = language
  /\ uiError' = ""
  /\ UNCHANGED <<serverVars, inputText, activeSpeaker, sessionStarted, isTranslating,
                 isGeneratingAudio, conversationHistory, audioCache, playingMessageId,
                 audioRef, utterance, clock, fetches, timers, session, origin>>

\* onClick={() => setCurrentSpeaker(speaker)}
SelectSpeaker(speaker) ==
  /\ activeSpeaker # speaker
  /\ activeSpeaker' = speaker
  /\ UNCHANGED <<serverVars, inputText, selectedLanguage, sessionStarted, isTranslating,
                 isGeneratingAudio, uiError, conversationHistory, audioCache,
                 playingMessageId, audioRef, utterance, clock, fetches, timers, session,
                 origin>>

\* handleTranslate up to its await of fetch('/api/translate'), called by the
\* Enter key (inputText.trim() && !isTranslating) or the button: validation,
\* startSession when no session is started, and the request.  The request
\* keeps what the continuation will use: the text, speaker and language of
\* this render.
HandleTranslate ==
  /\ ~isTranslating
  /\ Len(Trim(inputText)) > 0
  /\ clock + (IF sessionStarted THEN 1 ELSE 2) <= MaxClock
  /\ IF validateInput(inputText) # ""
       THEN /\ uiError' = validateInput(inputText)
            /\ UNCHANGED <<sessionStarted, conversationHistory, clock, isTranslating, fetches>>
     ELSE /\ IF ~sessionStarted
               THEN /\ sessionStarted' = TRUE
                    /\ clock' = clock + 1
                    /\ conversationHistory' = <<SystemMessage(clock + 1, selectedLanguage)>>
             ELSE UNCHANGED <<sessionStarted, clock, conversationHistory>>
          /\ isTranslating' = TRUE
          /\ uiError' = ""
          /\ fetches' = fetches \cup
               {[kind |-> "translate",
                 body |-> [text |-> Str(Trim(inputText)),
                           currentSpeaker |-> activeSpeaker,
                           targetLanguage |-> selectedLanguage],
                 messageId |-> 0,
                 session |-> session]}
  /\ UNCHANGED <<serverVars, inputText, selectedLanguage, activeSpeaker, isGeneratingAudio,
                 audioCache, playingMessageId, audioRef, utterance, timers, session, origin>>

\* The rest of handleTranslate once fetch has settled: the checks of the
\* response, addToConversation, the setTimeout of generateAudioForMessage,
\* the catch and the finally.
TranslateReplyArrives(request, reply) ==
  LET messageId == clock + 1
      translation == Field(reply, "translation")
  IN /\ request \in fetches
     /\ request.kind = "translate"
     /\ fetches' = fetches \ {request}
     /\ isTranslating' = FALSE
     /\ IF reply.status # 200 \/ "error" \in DOMAIN reply
          THEN /\ uiError' = TranslateFailure(reply)
               /\ UNCHANGED <<inputText, conversationHistory, clock, timers, origin>>
        ELSE /\ clock' = messageId
             /\ conversationHistory' =
                  Append(conversationHistory,
                         ConversationMessage(messageId, request.body.text, translation,
                                             request.body.currentSpeaker,
                                             request.body.targetLanguage))
             /\ timers' = timers \cup
                  {[messageId |-> messageId, text |-> translation,
                    targetLanguage |-> request.body.targetLanguage,
                    session |-> request.session]}
             /\ origin' = WithEntry(origin, messageId, request.session)
             /\ inputText' = <<>>
             /\ UNCHANGED uiError
     /\ UNCHANGED <<serverVars, selectedLanguage, activeSpeaker, sessionStarted,
                    isGeneratingAudio, audioCache, playingMessageId, audioRef, utterance,
                    session>>

\* The timer of handleTranslate runs generateAudioForMessage(messageId, text)
\* up to its await of fetch('/api/audio').  The audioCache it looks the
\* message up in is the one of the render that made the callback, which is
\* older than the message and so has no entry for it.
TimerFires(timer) ==
  /\ timer \in timers
  /\ timers' = timers \ {timer}
  /\ IF ~Truthy(timer.text)
       THEN UNCHANGED <<isGeneratingAudio, fetches>>
     ELSE /\ isGeneratingAudio' = TRUE
          /\ fetches' = fetches \cup
               {[kind |-> "audio",
                 body |-> [text |-> timer.text, targetLanguage |-> timer.targetLanguage],
                 messageId |-> timer.messageId,
                 session |-> timer.session]}
  /\ UNCHANGED <<serverVars, inputText, selectedLanguage, activeSpeaker, sessionStarted,
                 isTranslating, uiError, conversationHistory, audioCache, playingMessageId,
                 audioRef, utterance, clock, session, origin>>

\* The rest of generateAudioForMessage once fetch has settled.
AudioReplyArrives(request, reply) ==
  LET audio == Field(reply, "audio")
      failed == reply.status # 200 \/ "error" \in DOMAIN reply
      demo == "demoMode" \in DOMAIN reply /\ ~Truthy(audio)
  IN /\ request \in fetches
     /\ request.kind = "audio"
     /\ fetches' = fetches \ {request}
     /\ isGeneratingAudio' = FALSE
     /\ IF failed THEN UNCHANGED <<conversationHistory, audioCache>>
        ELSE IF demo
          THEN /\ conversationHistory' =
                    MarkAudioGenerated(conversationHistory, request.messageId, TRUE)
               /\ UNCHANGED audioCache
        ELSE IF Truthy(audio)
          THEN /\ audioCache' = WithEntry(audioCache, request.messageId, audio)
               /\ conversationHistory' =
                    MarkAudioGenerated(conversationHistory, request.messageId, FALSE)
        ELSE UNCHANGED <<conversationHistory, audioCache>>
     /\ UNCHANGED <<serverVars, inputText, selectedLanguage, activeSpeaker, sessionStarted,
                    isTranslating, uiError, playingMessageId, audioRef, utterance, clock,
                    timers, session, origin>>

\* clearSession, the End Session button, shown while a session is started.
ClearSession ==
  /\ sessionStarted
  /\ session < MaxSessions
  /\ conversationHistory' = <<>>
  /\ sessionStarted' = FALSE
  /\ inputText' = <<>>
  /\ uiError' = ""
  /\ audioCache' = <<>>
  /\ playingMessageId' = 0
  /\ audioRef' = <<>>
  /\ session' = session + 1
  /\ UNCHANGED <<serverVars, selectedLanguage, activeSpeaker, isTranslating,
                 isGeneratingAudio, utterance, clock, fetches, timers, origin>>

\* utterance.lang of playMessageAudio.
UtteranceLang(translatedLanguage) ==
  IF translatedLanguage = "mandarin" THEN "zh-CN"
  ELSE IF translatedLanguage = "cantonese" THEN "zh-HK"
  ELSE "en-US"

\* playMessageAudio(message.id), the button of a message whose audio is
\* generated: the cached audio is played, or in the offline case the browser
\* speaks the translated text; audio.play() may fail.
PlayMessageAudio(i, played) ==
  LET msg == conversationHistory[i]
      cached == msg.id \in DOMAIN audioCache /\ Truthy(audioCache[msg.id])
  IN /\ i \in 1..Len(conversationHistory)
     /\ msg.audioGenerated
     /\ playingMessageId # msg.id
     /\ IF cached
          THEN /\ audioRef' = <<[messageId |-> msg.id, src |-> audioCache[msg.id],
                                 playing |-> played]>>
               /\ playingMessageId' = IF played THEN msg.id ELSE 0
               /\ uiError' = IF played THEN uiError
                             ELSE "Audio playback failed. Please check your browser settings."
               /\ utterance' = <<>>
        ELSE IF msg.demoAudio
          THEN /\ utterance' = <<[messageId |-> msg.id, text |-> msg.translatedText,
                                  lang |-> UtteranceLang(msg.translatedLanguage)]>>
               /\ playingMessageId' = msg.id
               /\ audioRef' = <<>>
               /\ UNCHANGED uiError
        ELSE /\ playingMessageId' = 0
             /\ uiError' = "No audio available for this message."
             /\ audioRef' = <<>>
             /\ utterance' = <<>>
     /\ UNCHANGED <<serverVars, inputText, selectedLanguage, activeSpeaker, sessionStarted,
                    isTranslating, isGeneratingAudio, conversationHistory, audioCache, clock,
                    fetches, timers, session, origin>>

\* audio.onended, or audio.onerror, of the audio being played.
AudioEnded(ok) ==
  /\ audioRef # <<>>
  /\ audioRef[1].playing
  /\ playingMessageId' = 0
  /\ audioRef' = <<>>
  /\ uiError' = IF ok THEN uiError ELSE "Audio playback failed."
  /\ UNCHANGED <<serverVars, inputText, selectedLanguage, activeSpeaker, sessionStarted,
                 isTranslating, isGeneratingAudio, conversationHistory, audioCache,
                 utterance, clock, fetches, timers, session, origin>>

\* utterance.onend
UtteranceEnded ==
  /\ utterance # <<>>
  /\ playingMessageId' = 0
  /\ utterance' = <<>>
  /\ UNCHANGED <<serverVars, inputText, selectedLanguage, activeSpeaker, sessionStarted,
                 isTranslating, isGeneratingAudio, uiError, conversationHistory, audioCache,
                 audioRef, clock, fetches, timers, session, origin>>

\* The conversation client: what the user does, and the replies and timers
\* that come back in any order.
NextClient ==
  \/ \E text \in ClientTexts : TypeText(text)
  \/ \E language \in {"mandarin", "cantonese"} : SelectLanguage(language)
  \/ \E speaker \in {"doctor", "patient"} : SelectSpeaker(speaker)
  \/ HandleTranslate
  \/ \E request \in {r \in fetches : r.kind = "translate"} :
       \E reply \in TranslateReplies(request.body) \cup {FetchFailed} :
         TranslateReplyArrives(request, reply)
  \/ \E timer \in timers : TimerFires(timer)
  \/ \E request \in {r \in fetches : r.kind = "audio"} :
       \E reply \in AudioReplies(request.body) \cup {FetchFailed} :
         AudioReplyArrives(request, reply)
  \/ ClearSession
  \/ \E i \in 1..Len(conversationHistory), played \in BOOLEAN : PlayMessageAudio(i, played)
  \/ \E ok \in BOOLEAN : AudioEnded(ok)
  \/ UtteranceEnded

\* The client talking to the server of part_001, live or offline.
SpecClient == Init /\ [][NextClient]_vars

----------------------------------------------------------------------------
(* Properties of the relay.                                                 *)

\* The fields of the request being handled, with the defaults applied.
ReqText == req.body.text
ReqLanguage == Default(req.body.targetLanguage, "mandarin")
ReqSpeaker == Default(req.body.currentSpeaker, "doctor")

\* A translate request has been answered in offline mode.
OfflineTranslateDone == DEMO_MODE /\ pc = "done" /\ req.endpoint = "translate"

\* The text is a string that is not blank.
NonBlankString(text) ==
  text.type = "string" /\ \E i \in 1..Len(text.chars) : ~IsWhiteSpace(text.chars[i])

\* The request is one the data model calls valid for /api/translate.
ValidTranslateRequest ==
  /\ NonBlankString(ReqText)
  /\ Len(ReqText.chars) <= 2000
  /\ ReqLanguage \in {"mandarin", "cantonese"}
  /\ ReqSpeaker \in {"doctor", "patient"}

\* The values of a phrase table.
ValuesOf(table) == {table[i].value : i \in 1..Len(table)}
KeysOf(table) == {table[i].key : i \in 1..Len(table)}

\* The placeholder built from the original text for the request's role and dialect.
PlaceholderFor(text, speaker, language) ==
  IF speaker = "doctor"
    THEN IF language = "mandarin"
           THEN text \o <<65288, 35831, 25552, 20379, 26356, 35814, 32454, 30340, 32763,
                          35793, 65289>>
           ELSE text \o <<65288, 35531, 25552, 20379, 26356, 35443, 32048, 22021, 32763,
                          35695, 65289>>
    ELSE <<34>> \o text \o
         <<34, 32, 40, 80, 108, 101, 97, 115, 101, 32, 112, 114, 111, 118, 105, 100, 101,
           32, 112, 114, 111, 112, 101, 114, 32, 69, 110, 103, 108, 105, 115, 104, 32,
           116, 114, 97, 110, 115, 108, 97, 116, 105, 111, 110, 41>>

\* C1: in offline mode every valid translate request (either role, either
\* dialect, texts such as 'constructor' included) is answered with success, and
\* the translation is a string that is a value of the phrase table or the
\* placeholder built from the original text.
C1_OfflineTranslationIsHitOrPlaceholder ==
  (OfflineTranslateDone /\ ValidTranslateRequest) =>
    /\ Len(res) = 1
    /\ res[1].status = 200
    /\ res[1].translation.type = "string"
    /\ \/ res[1].translation.chars \in
            (IF ReqSpeaker = "doctor" THEN ValuesOf(mockTranslations(ReqLanguage))
                                      ELSE ValuesOf(mockChineseToEnglish))
       \/ res[1].translation.chars = PlaceholderFor(ReqText.chars, ReqSpeaker, ReqLanguage)

\* key occurs in s as a whole-word phrase: some occurrence has no word
\* character right before it and none right after it.
WholeWordOccurrence(key, s) ==
  \E p \in 0..(Len(s) - Len(key)) :
    /\ SubSeq(s, p + 1, p + Len(key)) = key
    /\ (p = 0 \/ ~IsWordChar(s[p]))
    /\ (p + Len(key) = Len(s) \/ ~IsWordChar(s[p + Len(key) + 1]))

\* A doctor's request has been answered from the offline English-keyed table.
OfflineDoctorDone ==
  /\ OfflineTranslateDone
  /\ ReqSpeaker = "doctor"
  /\ Len(res) = 1
  /\ res[1].status = 200

\* The lower-cased trimmed text of the request.
ReqLowerText == Trim(ToLowerCase(ReqText.chars))

\* The keys of the dialect's table that match the request's text as whole-word phrases.
MatchingKeys ==
  {k \in KeysOf(mockTranslations(ReqLanguage)) : WholeWordOccurrence(k, ReqLowerText)}

\* The value the dialect's table holds for a key.
TableValue(key) ==
  LET table == mockTranslations(ReqLanguage)
  IN table[CHOOSE i \in 1..Len(table) : table[i].key = key].value

\* C2: longest-match priority of the offline English-to-dialect scan: when the
\* lower-cased trimmed text is not itself a key and two keys match it as
\* whole-word phrases, one a sub-phrase of the other, the phrase matched is
\* never the shorter one: the translation is the entry of a matching key that
\* no matching key exceeds in length.
C2_LongestMatchPriority ==
  (OfflineDoctorDone /\ ReqLowerText \notin KeysOf(mockTranslations(ReqLanguage))) =>
    \A k1, k2 \in MatchingKeys :
      (k1 # k2 /\ WholeWordOccurrence(k1, k2)) =>
        /\ Len(log) = 1
        /\ log[1].event = "Matched phrase"
        /\ log[1].phrase # k1
        /\ log[1].phrase \in MatchingKeys
        /\ \A k \in MatchingKeys : Len(k) <= Len(log[1].phrase)
        /\ res[1].translation = Str(TableValue(log[1].phrase))

\* C2 witness: 'Take this medication twice daily with food.' answered in
\* Mandarin with the entry of the full sentence, '每天随餐服用这个药物两次'.
C2_Witness ==
  /\ OfflineDoctorDone
  /\ ReqText = Str(TakeThisMedicationSentence)
  /\ ReqLanguage = "mandarin"
  /\ Cardinality(MatchingKeys) = 4
  /\ res[1].translation =
       Str(<<27599, 22825, 38543, 39184, 26381, 29992, 36825, 20010, 33647, 29289, 20004,
             27425>>)

\* C3: word-boundary safety of the offline English-to-dialect scan: a phrase
\* is matched only where it occurs as a whole-word phrase, so a key that occurs
\* in the text only inside longer words yields no hit, and when no key occurs
\* as a whole-word phrase the placeholder is returned ('this is fine' does not
\* return the 'hi' entry).
C3_WordBoundarySafety ==
  OfflineDoctorDone =>
    /\ \A i \in 1..Len(log) :
         log[i].event = "Matched phrase" =>
           /\ WholeWordOccurrence(log[i].phrase, ReqLowerText)
           /\ res[1].translation = Str(TableValue(log[i].phrase))
    /\ (MatchingKeys = {} /\ NonBlankString(ReqText)
          /\ ReqLowerText \notin ObjectPrototypeFunctions \cup {ProtoKey}) =>
         res[1].translation =
           Str(PlaceholderFor(ReqText.chars, "doctor", ReqLanguage))

\* C3 witness: 'this is fine', which holds 'hi' inside 'this', answered with
\* the placeholder.
C3_Witness ==
  /\ OfflineDoctorDone
  /\ ReqText = Str(ThisIsFine)
  /\ Includes(ReqLowerText, <<104, 105>>)
  /\ <<104, 105>> \in KeysOf(mockTranslations(ReqLanguage))
  /\ log = <<[event |-> "No match found", phrase |-> <<>>]>>
  /\ res[1].translation = Str(PlaceholderFor(ThisIsFine, "doctor", ReqLanguage))

\* A validation error of the relay: the 400 response with the given error.
RejectedWith(error) ==
  /\ pc = "done"
  /\ Len(res) = 1
  /\ res[1].status = 400
  /\ res[1].error = error

\* The request has passed validation: it was answered with success, or an
\* outbound call has been issued for it.
PassedValidation ==
  \/ openaiCalls > 0
  \/ ttsCalls # <<>>
  \/ (pc = "done" /\ Len(res) = 1 /\ res[1].status = 200)

\* A request of the endpoint is being handled or has been answered.
Handled(endpoint) == req.endpoint = endpoint /\ pc # "idle"

\* C4 as stated: /api/translate accepts a text of exactly 2000 characters and
\* rejects every text of 2001 or more characters with 400 'Text too long';
\* /api/audio accepts exactly 1000 characters and rejects every text of 1001 or
\* more with 400 'Text too long for audio generation'.
C4_EveryOverlongTextGetsLengthError ==
  /\ (Handled("translate") /\ ReqText.type = "string" /\ Len(ReqText.chars) >= 2001) =>
       RejectedWith("Text too long")
  /\ (Handled("audio") /\ ReqText.type = "string" /\ Len(ReqText.chars) >= 1001) =>
       RejectedWith("Text too long for audio generation")

\* C4 amended: for a text that is not blank, /api/translate accepts exactly
\* 2000 characters (with a supported dialect the request passes validation)
\* and rejects 2001 or more with 400 'Text too long'; /api/audio does the same
\* at 1000 and 1001 with 'Text too long for audio generation'.  (A blank text
\* of any length gets the empty-text error.)
C4_LengthBoundary ==
  /\ (Handled("translate") /\ NonBlankString(ReqText)) =>
       /\ Len(ReqText.chars) >= 2001 => RejectedWith("Text too long")
       /\ (Len(ReqText.chars) = 2000 /\ ReqLanguage \in {"mandarin", "cantonese"}) =>
            PassedValidation
       /\ Len(ReqText.chars) <= 2000 => ~RejectedWith("Text too long")
  /\ (Handled("audio") /\ NonBlankString(ReqText)) =>
       /\ Len(ReqText.chars) >= 1001 => RejectedWith("Text too long for audio generation")
       /\ (Len(ReqText.chars) = 1000 /\ ReqLanguage \in {"mandarin", "cantonese"}) =>
            PassedValidation
       /\ Len(ReqText.chars) <= 1000 => ~RejectedWith("Text too long for audio generation")

\* C4 witness: a text of exactly 2000 characters translated in offline mode.
C4_Witness ==
  /\ OfflineTranslateDone
  /\ NonBlankString(ReqText)
  /\ Len(ReqText.chars) = 2000
  /\ res[1].status = 200

\* C5: translate fails with a validation error (400, no translation, no model
\* call) whenever the text is empty or blank, the text exceeds 2000
\* characters, targetLanguage is not mandarin or cantonese, or currentSpeaker
\* is given and is not doctor or patient.
C5_InvalidRequestIsRejected ==
  (Handled("translate")
     /\ \/ ~NonBlankString(ReqText)
        \/ Len(ReqText.chars) > 2000
        \/ ReqLanguage \notin {"mandarin", "cantonese"}
        \/ ReqSpeaker \notin {"doctor", "patient"}) =>
    /\ openaiCalls = 0
    /\ pc = "done"
    /\ Len(res) = 1
    /\ res[1].status = 400

\* A live synthesis request that has passed validation.
LiveSynthesis == ~DEMO_MODE /\ req.endpoint = "audio" /\ ttsCalls # <<>>

\* The voice candidates of the request's dialect.
Candidates == voiceConfigs(ReqLanguage).voiceOptions

\* The call has settled and its candidate failed: the call was rejected or
\* its reply was counted as holding no audio.
CallFailed(call) == call.settled /\ call.outcome \in {"rejected", "no audio content"}

\* An error response has been sent for the request.
ErrorResponseSent == \E i \in 1..Len(res) : res[i].status # 200

\* C6: voice fallback ordering in live synthesis: the calls go to the
\* candidates strictly in list order, candidate i+1 is called only after
\* candidate i has failed, no response is sent while a failed candidate has a
\* successor that has not been tried, and an error response is sent only
\* after every candidate has been tried and has failed.
C6_VoiceFallbackOrder ==
  LiveSynthesis =>
    /\ Len(ttsCalls) <= Len(Candidates)
    /\ \A i \in 1..Len(ttsCalls) : ttsCalls[i].voice = i
    /\ \A i \in 1..(Len(ttsCalls) - 1) : CallFailed(ttsCalls[i])
    /\ (CallFailed(ttsCalls[Len(ttsCalls)]) /\ Len(ttsCalls) < Len(Candidates)) =>
         res = <<>>
    /\ ErrorResponseSent =>
         /\ Len(ttsCalls) = Len(Candidates)
         /\ \A i \in 1..Len(ttsCalls) : CallFailed(ttsCalls[i])

\* C6 witness: the second Mandarin candidate called after the first has
\* failed, with no response sent yet.
C6_Witness ==
  /\ LiveSynthesis
  /\ ReqLanguage = "mandarin"
  /\ pc = "await_tts"
  /\ Len(ttsCalls) = 2
  /\ CallFailed(ttsCalls[1])
  /\ ~ttsCalls[2].settled
  /\ res = <<>>

\* The status the error mapping of synthesis gives an error.
StatusOfSynthesisError(error) ==
  IF ~error.hasCode THEN 500
  ELSE IF error.code = 3 THEN 400
  ELSE IF error.code = 7 THEN 403
  ELSE IF error.code = 8 THEN 429
  ELSE 500

\* C7: when every voice candidate has failed, the error response is chosen
\* from the last candidate's failure alone: its status is the one the error
\* mapping gives the last candidate's error, whatever the earlier errors were.
C7_LastErrorIsSurfaced ==
  (LiveSynthesis /\ pc = "done"
     /\ \A i \in 1..Len(ttsCalls) : CallFailed(ttsCalls[i])) =>
    /\ Len(res) = 1
    /\ res[1].status = StatusOfSynthesisError(ttsCalls[Len(ttsCalls)].error)

\* C7 witness: the first candidate failed with code 3 (400), the last one
\* with code 7, and the response is 403.
C7_Witness ==
  /\ LiveSynthesis
  /\ pc = "done"
  /\ \A i \in 1..Len(ttsCalls) : CallFailed(ttsCalls[i])
  /\ ttsCalls[1].error.hasCode /\ ttsCalls[1].error.code = 3
  /\ ttsCalls[Len(ttsCalls)].error.hasCode /\ ttsCalls[Len(ttsCalls)].error.code = 7
  /\ res[1].status = 403

\* The type of the i-th candidate of each dialect, as the voice lists give it.
CandidateType(language, i) ==
  IF language = "mandarin" THEN <<"Neural2", "Wavenet", "Standard">>[i]
  ELSE <<"Neural2", "Premium", "Standard", "Basic">>[i]

\* C8: early exit on success: once a candidate has returned a non-empty audio
\* payload it is the last candidate called, the request is answered with
\* exactly one response, a success whose voiceType names that candidate's
\* type, and every candidate before it has failed.
C8_EarlyExitOnSuccess ==
  LiveSynthesis =>
    \A i \in 1..Len(ttsCalls) :
      ttsCalls[i].outcome = "audio" =>
        /\ i = Len(ttsCalls)
        /\ pc = "done"
        /\ Len(res) = 1
        /\ res[1].status = 200
        /\ res[1].audio.chars # <<>>
        /\ res[1].voiceType = CandidateType(ReqLanguage, i) \o " (" \o ReqLanguage \o ")"
        /\ \A j \in 1..(i - 1) : CallFailed(ttsCalls[j])

\* C8 witness: the second Cantonese candidate succeeded after the first had
\* failed, and two candidates were never called.
C8_Witness ==
  /\ LiveSynthesis
  /\ ReqLanguage = "cantonese"
  /\ Len(ttsCalls) = 2
  /\ ttsCalls[2].outcome = "audio"
  /\ res[1].voiceType = "Premium (cantonese)"

\* C9: an upstream reply with an empty or absent audio payload is a failure of
\* its candidate: no success response is ever sent whose audio is empty, a
\* candidate whose reply held no audio is never the one a success names, and
\* when every candidate's reply is empty the request ends with an error.
C9_EmptyPayloadIsFailure ==
  LiveSynthesis =>
    /\ \A i \in 1..Len(res) : res[i].status = 200 => res[i].audio.chars # <<>>
    /\ \A i \in 1..Len(ttsCalls) : ttsCalls[i].outcome # "empty audio"

\* C10: outbound call budget: a translate request issues at most one call of
\* the model API and none of the TTS API; a synthesis request issues at most
\* one TTS call per candidate of its dialect (at most 3 for mandarin, 4 for
\* cantonese), each candidate at most once, and no model call; at most one
\* call is in flight at any time; a request that fails validation issues none.
C10_OutboundCallBudget ==
  /\ inFlight \in {0, 1}
  /\ Cardinality({i \in 1..Len(ttsCalls) : ~ttsCalls[i].settled}) <= 1
  /\ openaiCalls <= 1
  /\ inFlight = (IF pc = "await_openai" THEN 1 ELSE 0)
                  + Cardinality({i \in 1..Len(ttsCalls) : ~ttsCalls[i].settled})
  /\ req.endpoint = "translate" => ttsCalls = <<>>
  /\ req.endpoint = "audio" =>
       /\ openaiCalls = 0
       /\ Len(ttsCalls) <= (IF ReqLanguage = "mandarin" THEN 3 ELSE 4)
       /\ \A i, j \in 1..Len(ttsCalls) : ttsCalls[i].voice = ttsCalls[j].voice => i = j
  /\ (pc # "idle"
        /\ \/ ~NonBlankString(ReqText)
           \/ Len(ReqText.chars) > (IF req.endpoint = "translate" THEN 2000 ELSE 1000)
           \/ ReqLanguage \notin {"mandarin", "cantonese"}) =>
       (openaiCalls = 0 /\ ttsCalls = <<>>)
  /\ DEMO_MODE => (openaiCalls = 0 /\ ttsCalls = <<>>)

\* C10 witness: a Cantonese synthesis request that has used its whole budget,
\* four calls, all settled.
C10_Witness ==
  /\ LiveSynthesis
  /\ ReqLanguage = "cantonese"
  /\ Len(ttsCalls) = 4
  /\ pc = "done"
  /\ inFlight = 0

----------------------------------------------------------------------------
(* The error responses of the live handlers, and the two modes.             *)

\* The live /api/translate handler has sent what it sends after its model call.
LiveTranslateSettled ==
  ~DEMO_MODE /\ req.endpoint = "translate" /\ pc = "done" /\ openaiReply # NoReply

\* The model call failed, or its reply could not be used (content: null makes
\* .trim() throw).
ModelCallFailed ==
  openaiReply.kind = "reject" \/ openaiReply.content.type # "string"

\* C11: when the model call of a live translate request fails, exactly one
\* response is sent and it has the fields status, error and details only: status
\* 429 when the upstream code is insufficient_quota, 429 when it is
\* rate_limit_exceeded, and in every other case status 500 with the error
\* 'Translation failed' and the details 'Unable to process translation request';
\* neither string is the message of the upstream error.
C11_TranslateErrorMapping ==
  (LiveTranslateSettled /\ ModelCallFailed) =>
    /\ Len(res) = 1
    /\ DOMAIN res[1] = {"status", "error", "details"}
    /\ res[1].error # openaiReply.message
    /\ res[1].details # openaiReply.message
    /\ IF openaiReply.kind = "reject"
            /\ openaiReply.code \in {"insufficient_quota", "rate_limit_exceeded"}
          THEN res[1].status = 429
          ELSE /\ res[1].status = 500
               /\ res[1].error = "Translation failed"
               /\ res[1].details = "Unable to process translation request"

\* A rejection with another code (invalid_api_key) was answered 500, or a reply
\* without content was.
C11_Witness ==
  /\ LiveTranslateSettled
  /\ \/ openaiReply.code = "invalid_api_key" /\ res[1].status = 500
     \/ openaiReply.kind = "resolve" /\ openaiReply.content = Null /\ res[1].status = 500

\* Synthesis has failed: the live /api/audio handler has returned and no
\* candidate produced audio.
SynthesisFailed ==
  LiveSynthesis /\ pc = "done" /\ ~audioGenerated

\* The upstream code of the failure the handler's catch received: 0 when the
\* error has none (a network error, or the handler's own 'No audio content
\* received').
SynthesisFailureCode == IF lastError.hasCode THEN lastError.code ELSE 0

\* C12: when synthesis fails exactly one response is sent, and it is one of
\* four: status 400 exactly when the upstream code is 3, 403 exactly when it is
\* 7, 429 exactly when it is 8, and for every other failure status 500 with
\* the generic body ('Audio generation failed', 'Unable to convert text to
\* speech').
C12_SynthesisErrorMapping ==
  SynthesisFailed =>
    /\ Len(res) = 1
    /\ DOMAIN res[1] = {"status", "error", "details"}
    /\ res[1].status \in {400, 403, 429, 500}
    /\ res[1].status = 400 <=> SynthesisFailureCode = 3
    /\ res[1].status = 403 <=> SynthesisFailureCode = 7
    /\ res[1].status = 429 <=> SynthesisFailureCode = 8
    /\ res[1].status = 500 <=> SynthesisFailureCode \notin {3, 7, 8}
    /\ res[1].status = 500 =>
         /\ res[1].error = "Audio generation failed"
         /\ res[1].details = "Unable to convert text to speech"

\* Synthesis failed with upstream code 8 on the last candidate and was
\* answered 429.
C12_Witness ==
  /\ SynthesisFailed
  /\ SynthesisFailureCode = 8
  /\ res = <<ErrorResponse(429, "Audio service temporarily unavailable",
                           "Please try again in a moment")>>

\* The module body has run: DEMO_MODE has its value, or the process has exited.
Loaded == pc # "load"

\* A required variable is not set, or set to the empty string.
CredentialAbsent == \E varName \in DOMAIN env : env[varName] \in {Undefined, Str(<<>>)}

\* A required variable holds the placeholder of the template.
CredentialIsPlaceholder == \E varName \in DOMAIN env : env[varName] = Str(PlaceholderKey)

\* The current request has passed validation and was or is being served from
\* the offline implementation: no outbound call, and its response, once sent,
\* carries demoMode = true.
ServedOffline ==
  /\ openaiCalls = 0
  /\ ttsCalls = <<>>
  /\ inFlight = 0
  /\ pc = "done" => (Len(res) = 1 /\ "demoMode" \in DOMAIN res[1] /\ res[1].demoMode)

\* The current request has passed validation and was or is being served live:
\* an outbound call was made for it and no response carries demoMode.
ServedLive ==
  /\ openaiCalls + Len(ttsCalls) >= 1
  /\ \A i \in 1..Len(res) : "demoMode" \notin DOMAIN res[i]

\* C13 as stated: offline mode is active exactly when a required credential
\* is absent at startup; with a credential absent the process starts and
\* serves requests offline, with both present it serves them live.
C13_OfflineExactlyWhenCredentialAbsent ==
  Loaded =>
    /\ DEMO_MODE <=> CredentialAbsent
    /\ CredentialAbsent => ~(pc = "exited" /\ startup = <<>> /\ ~DEMO_MODE)
    /\ (pc \in {"await_openai", "await_tts", "done"} /\ PassedValidation) =>
         IF CredentialAbsent THEN ServedOffline ELSE ServedLive

\* After the module body has run, the mode and the process state match the
\* server file and the environment.
ModeMatchesEnvironment ==
  Loaded =>
    /\ DEMO_MODE <=> (server = DemoCapable /\ (CredentialAbsent \/ CredentialIsPlaceholder))
    /\ (server = LiveOnly /\ CredentialAbsent) =>
         (pc = "exited" /\ exitCode = <<1>> /\ startup = <<>>)
    /\ (pc \in {"await_openai", "await_tts", "done"} /\ PassedValidation) =>
         IF DEMO_MODE THEN ServedOffline ELSE ServedLive

\* C13, amended: in the server with demo mode, offline mode is active exactly
\* when a required variable is unset, empty or holds the placeholder
\* 'your_openai_api_key_here'; the live-only server has no offline mode and
\* exits with status 1 before serving when a required variable is unset or
\* empty.  A request that passes validation is served offline when the mode is
\* active, live otherwise, and the mode never changes once the module body
\* has run.
C13_ModeIsDerivedFromEnvironmentAtStartup ==
  /\ []ModeMatchesEnvironment
  /\ [][Loaded => DEMO_MODE' = DEMO_MODE]_vars

\* The server with demo mode was started with the placeholder as the model
\* credential and a TTS credential, and has answered a translate request
\* offline.
C13_Witness ==
  /\ server = DemoCapable
  /\ env.OPENAI_API_KEY = Str(PlaceholderKey)
  /\ Truthy(env.GOOGLE_APPLICATION_CREDENTIALS)
  /\ env.GOOGLE_APPLICATION_CREDENTIALS # Str(PlaceholderKey)
  /\ pc = "done"
  /\ req.endpoint = "translate"
  /\ PassedValidation
  /\ res[1].status = 200
  /\ res[1].demoMode

\* C14: the phrase table stands in for the model call and is never a fallback
\* for it.  A live translate request whose model call fails is answered with
\* one error response of status 429 or 500 that holds no translation, and no
\* phrase scan ran for it; a translate request handled in offline mode makes
\* no model call.
C14_PhraseTableIsNotAFallback ==
  /\ (LiveTranslateSettled /\ ModelCallFailed) =>
       /\ Len(res) = 1
       /\ res[1].status \in {429, 500}
       /\ "translation" \notin DOMAIN res[1]
       /\ "demoMode" \notin DOMAIN res[1]
       /\ log = <<>>
  /\ (DEMO_MODE /\ req.endpoint = "translate") =>
       /\ openaiCalls = 0
       /\ openaiRequest = NoCall
       /\ openaiReply = NoReply
       /\ inFlight = 0

\* The model call failed for a doctor's 'hello', a key of both English-keyed
\* tables, and the request was answered 500.
C14_Witness ==
  /\ LiveTranslateSettled
  /\ ModelCallFailed
  /\ ReqText = Str(<<104, 101, 108, 108, 111>>)
  /\ ReqSpeaker = "doctor"
  /\ \E i \in 1..Len(mockTranslations(ReqLanguage)) :
       mockTranslations(ReqLanguage)[i].key = ReqText.chars
  /\ res[1].status = 500

\* The request is one /api/audio accepts: a non-blank string of at most 1000
\* characters and a supported dialect.
ValidAudioRequest ==
  /\ NonBlankString(ReqText)
  /\ Len(ReqText.chars) <= 1000
  /\ ReqLanguage \in {"mandarin", "cantonese"}

\* C15: in offline mode a request to /api/audio that passes validation is
\* answered with one success response whose audio is null, whose demoMode is
\* true and whose message names the text (its first 30 characters), and no
\* synthesis call is made for it.
C15_OfflineAudioIsNullWithNotice ==
  (DEMO_MODE /\ Handled("audio")) =>
    /\ ttsCalls = <<>>
    /\ inFlight = 0
    /\ pc = "done"
    /\ ValidAudioRequest =>
         /\ Len(res) = 1
         /\ res[1].status = 200
         /\ res[1].audio = Null
         /\ res[1].demoMode = TRUE
         /\ res[1].targetLanguage = ReqLanguage
         /\ res[1].message[1] = "Demo mode: Audio would be generated for"
         /\ res[1].message[2] # <<>>
         /\ res[1].message[2] = SubSeq(ReqText.chars, 1, Len(res[1].message[2]))
         /\ Len(res[1].message[2]) <= 30

\* An offline audio request with a text of more than 30 characters has been
\* answered with the notice.
C15_Witness ==
  /\ DEMO_MODE
  /\ Handled("audio")
  /\ ValidAudioRequest
  /\ Len(ReqText.chars) > 30
  /\ res[1].status = 200
  /\ res[1].audio = Null

\* The model call of a live translate request has been issued.
LiveModelCallIssued == ~DEMO_MODE /\ req.endpoint = "translate" /\ openaiCalls > 0

\* What the prompt of a dialect and a direction must tell the model to
\* translate into: the dialect for a doctor's text, English for a patient's.
PromptTarget(language, speaker) ==
  IF speaker = "doctor"
    THEN IF language = "mandarin" THEN "Simplified Chinese (Mandarin)" ELSE "Cantonese"
    ELSE "English"

\* C16: in live mode the system prompt of the model call is selected by the
\* pair of dialect and direction: a doctor's request is sent with the
\* English-to-dialect prompt of its dialect, a patient's request with a
\* dialect-to-English prompt, so that two live requests that differ only in
\* currentSpeaker are sent with different prompts.
C16_PromptSelectedByDialectAndDirection ==
  LiveModelCallIssued =>
    /\ openaiRequest.user = ReqText
    /\ openaiRequest.system.into = PromptTarget(ReqLanguage, ReqSpeaker)
    /\ ReqSpeaker # "doctor" => openaiRequest.system # systemPrompts(ReqLanguage)

----------------------------------------------------------------------------
(* The offline patient table, response shapes and defaults.                 *)

\* A patient's translate request has been answered with success in offline mode.
OfflinePatientAnswered ==
  /\ OfflineTranslateDone
  /\ ReqSpeaker = "patient"
  /\ Len(res) = 1
  /\ res[1].status = 200

\* The keys of a section of the patient table.
SectionKeys(section) == {section[i][1] : i \in 1..Len(section)}

\* The keys that belong to the other dialect only.
ForeignKeys(language) ==
  IF language = "mandarin"
    THEN SectionKeys(CantoneseSection) \ SectionKeys(MandarinSection \o PartialWordsSection)
    ELSE SectionKeys(MandarinSection) \ SectionKeys(CantoneseSection \o PartialWordsSection)

\* C17 as stated: an offline patient text is matched only against the
\* Chinese-keyed phrases of the requested dialect: a text that is a key of the
\* other dialect only is not found by the exact lookup (which logs nothing),
\* and the scan matches no key of the other dialect only.
C17_PatientMatchedOnlyInDialectTable ==
  OfflinePatientAnswered =>
    /\ Trim(ReqText.chars) \in ForeignKeys(ReqLanguage) => log # <<>>
    /\ \A i \in 1..Len(log) :
         log[i].event = "Matched phrase" => log[i].phrase \notin ForeignKeys(ReqLanguage)

\* The value object-literal evaluation leaves for a key of the patient table:
\* that of its last occurrence in the literal.
LastValueOf(key) ==
  LET last == CHOOSE i \in 1..Len(mockChineseToEnglishLiteral) :
                /\ mockChineseToEnglishLiteral[i][1] = key
                /\ \A j \in (i + 1)..Len(mockChineseToEnglishLiteral) :
                     mockChineseToEnglishLiteral[j][1] # key
  IN mockChineseToEnglishLiteral[last][2]

\* C17, amended: an offline patient text is matched against one Chinese-keyed
\* table that holds the phrases of both dialects, whatever the requested
\* dialect: a text that is, once trimmed, a key of either dialect is answered
\* with that key's value by the exact lookup, also when the key belongs to the
\* other dialect only, and the response names the requested dialect only in
\* its targetLanguage field.
C17_PatientTableIsSharedByDialects ==
  OfflinePatientAnswered =>
    /\ res[1].targetLanguage = ReqLanguage
    /\ Trim(ReqText.chars) \in SectionKeys(mockChineseToEnglishLiteral) =>
         /\ log = <<>>
         /\ res[1].translation = Str(LastValueOf(Trim(ReqText.chars)))

\* The Cantonese '頭痛', a key of the Cantonese section only, sent by a
\* patient with targetLanguage mandarin, was answered 'I have a headache'.
C17_Witness ==
  /\ OfflinePatientAnswered
  /\ ReqLanguage = "mandarin"
  /\ ReqText = Str(<<38957, 30171>>)
  /\ ReqText.chars \in ForeignKeys("mandarin")
  /\ res[1].translation =
       Str(<<73, 32, 104, 97, 118, 101, 32, 97, 32, 104, 101, 97, 100, 97, 99, 104, 101>>)

\* A translate request has been answered with success.
TranslateSucceeded ==
  req.endpoint = "translate" /\ pc = "done" /\ Len(res) = 1 /\ res[1].status = 200

\* The fields of the body of a response (the status is not part of the body).
BodyFields(response) == DOMAIN response \ {"status"}

\* C18: the body of a live success response of /api/translate has the fields
\* translation, original, targetLanguage and timestamp; the body of an offline
\* success response has all of those fields and also demoMode = true and
\* translationDirection.
C18_TranslateResponseShape ==
  TranslateSucceeded =>
    /\ {"translation", "original", "targetLanguage", "timestamp"} \subseteq BodyFields(res[1])
    /\ res[1].original = ReqText
    /\ res[1].targetLanguage = ReqLanguage
    /\ IF DEMO_MODE
         THEN /\ BodyFields(res[1]) = {"translation", "original", "targetLanguage",
                                       "timestamp", "demoMode", "translationDirection"}
              /\ res[1].demoMode = TRUE
         ELSE BodyFields(res[1]) = {"translation", "original", "targetLanguage", "timestamp"}

\* The body of the request being handled holds a text and nothing else.
OnlyTextGiven ==
  /\ req.endpoint \in {"translate", "audio"}
  /\ req.body.targetLanguage = Omitted
  /\ req.endpoint = "translate" => req.body.currentSpeaker = Omitted

\* The dialect a success response says it used.
LanguageUsed(response) ==
  IF "language" \in DOMAIN response THEN response.language ELSE response.targetLanguage

\* C19: as the README documents the two endpoints, a body that holds only
\* a text is translated into Cantonese and synthesized as Cantonese: with
\* targetLanguage omitted, the model call is sent with the Cantonese prompt
\* and every success response names cantonese as the dialect used.
C19_OmittedLanguageIsCantonese ==
  (OnlyTextGiven /\ PassedValidation) =>
    /\ openaiCalls > 0 => openaiRequest.system.into = "Cantonese"
    /\ \A i \in 1..Len(res) : res[i].status = 200 => LanguageUsed(res[i]) = "cantonese"

----------------------------------------------------------------------------
(* Independence of requests.                                                *)

\* The handler of the current request has returned.
Answered == pc = "done" /\ req.endpoint \in {"translate", "audio"}

\* The observation is of the same request as the one being handled.
SameRequest(observation) ==
  observation.endpoint = req.endpoint /\ observation.body = req.body

\* What the request's own fields say of its validity: a non-blank string
\* within the endpoint's limit, and a dialect, mandarin when omitted, that is
\* one of the two.
OwnFieldsValid ==
  /\ NonBlankString(req.body.text)
  /\ Len(req.body.text.chars) <= (IF req.endpoint = "translate" THEN 2000 ELSE 1000)
  /\ (IF req.body.targetLanguage = Omitted THEN "mandarin" ELSE req.body.targetLanguage)
       \in {"mandarin", "cantonese"}

----------------------------------------------------------------------------
(* The relay boundary.                                                      *)

\* The request fails: its own fields are invalid, or its model call failed or
\* gave a reply that made the handler throw, or no voice candidate gave audio.
RequestFails ==
  \/ ~OwnFieldsValid
  \/ (LiveTranslateSettled /\ ModelCallFailed)
  \/ SynthesisFailed

\* C21: every request whose handler has returned has been answered, every
\* response that is not a success has a 4xx or 5xx status and a body of
\* exactly an error and a details string, a failing request is answered with
\* such a response and with no success, and the process has not exited.
C21_ErrorsConvertedAtBoundary ==
  Answered =>
    /\ res # <<>>
    /\ exitCode = <<>>
    /\ \A i \in 1..Len(res) :
         res[i].status # 200 =>
           /\ res[i].status \in 400..599
           /\ DOMAIN res[i] = {"status", "error", "details"}
           /\ res[i].error # ""
           /\ res[i].details # ""
    /\ RequestFails => \A i \in 1..Len(res) : res[i].status # 200

\* The model replied without content, .trim() threw inside the handler, and
\* the request was answered 500 with an error and details.
C21_Witness ==
  /\ LiveTranslateSettled
  /\ openaiReply.kind = "resolve"
  /\ openaiReply.content = Null
  /\ res = <<[status |-> 500, error |-> "Translation failed",
              details |-> "Unable to process translation request"]>>
  /\ exitCode = <<>>

----------------------------------------------------------------------------
(* Offline lookups.                                                         *)

\* A doctor's or a patient's translate request has been answered with success
\* in offline mode.
OfflineAnswered(speaker) ==
  /\ OfflineTranslateDone
  /\ ReqSpeaker = speaker
  /\ Len(res) = 1
  /\ res[1].status = 200

\* The value the literal of the dialect's English-keyed table gives a key: that
\* of its last occurrence.
LastDoctorValueOf(language, key) ==
  LET literal == IF language = "mandarin" THEN mockTranslationsMandarinLiteral
                 ELSE mockTranslationsCantoneseLiteral
      last == CHOOSE i \in 1..Len(literal) :
                /\ literal[i][1] = key
                /\ \A j \in (i + 1)..Len(literal) : literal[j][1] # key
  IN literal[last][2]

\* C22: exact match takes priority in offline mode.  When the lower-cased
\* trimmed text of a doctor equals a key of the dialect's table, or the
\* trimmed text of a patient equals a key of the patient table, the
\* translation is that key's value and no scan ran (nothing was logged); the
\* response has demoMode = true and translationDirection to_chinese for a
\* doctor, to_english for a patient.  A doctor's 'hello' or 'HELLO' in
\* Mandarin gives '你好'; a patient's '頭痛' in Cantonese gives 'I have a
\* headache'.
C22_ExactMatchPriority ==
  /\ OfflineAnswered("doctor") =>
       /\ res[1].demoMode = TRUE
       /\ res[1].translationDirection = "to_chinese"
       /\ ReqLowerText \in KeysOf(mockTranslations(ReqLanguage)) =>
            /\ res[1].translation = Str(LastDoctorValueOf(ReqLanguage, ReqLowerText))
            /\ log = <<>>
       /\ (ReqLanguage = "mandarin"
             /\ ReqText.chars \in {<<104, 101, 108, 108, 111>>, <<72, 69, 76, 76, 79>>}) =>
            res[1].translation = Str(<<20320, 22909>>)
  /\ OfflineAnswered("patient") =>
       /\ res[1].demoMode = TRUE
       /\ res[1].translationDirection = "to_english"
       /\ Trim(ReqText.chars) \in SectionKeys(mockChineseToEnglishLiteral) =>
            /\ res[1].translation = Str(LastValueOf(Trim(ReqText.chars)))
            /\ log = <<>>
       /\ (ReqLanguage = "cantonese" /\ ReqText.chars = <<38957, 30171>>) =>
            res[1].translation =
              Str(<<73, 32, 104, 97, 118, 101, 32, 97, 32, 104, 101, 97, 100, 97, 99, 104,
                    101>>)

\* A doctor's 'HELLO' was answered in Mandarin with '你好', the value of the
\* key 'hello', and nothing was logged.
C22_Witness ==
  /\ OfflineAnswered("doctor")
  /\ ReqLanguage = "mandarin"
  /\ ReqText = Str(<<72, 69, 76, 76, 79>>)
  /\ ReqLowerText = <<104, 101, 108, 108, 111>>
  /\ res[1].translation = Str(<<20320, 22909>>)
  /\ log = <<>>

\* The key occurs in the text as a substring.
OccursIn(key, s) ==
  \E p \in 0..(Len(s) - Len(key)) : SubSeq(s, p + 1, p + Len(key)) = key

\* The keys of the patient table that the raw text of the request contains.
ContainedKeys ==
  {k \in SectionKeys(mockChineseToEnglishLiteral) : OccursIn(k, ReqText.chars)}

RepeatedKeys ==
  {mockChineseToEnglishLiteral[i][1] :
     i \in {n \in 1..Len(mockChineseToEnglishLiteral) :
              \E m \in 1..(n - 1) :
                mockChineseToEnglishLiteral[m][1] = mockChineseToEnglishLiteral[n][1]}}

\* The values the literal gives a key before its last occurrence.
EarlierValuesOf(key) ==
  {mockChineseToEnglishLiteral[i][2] :
     i \in {n \in 1..Len(mockChineseToEnglishLiteral) :
              /\ mockChineseToEnglishLiteral[n][1] = key
              /\ \E m \in (n + 1)..Len(mockChineseToEnglishLiteral) :
                   mockChineseToEnglishLiteral[m][1] = key}}

\* The key an offline patient answer was found under: the trimmed text when it
\* is a key, else the phrase the scan matched, else none.
KeyFound ==
  IF Trim(ReqText.chars) \in SectionKeys(mockChineseToEnglishLiteral)
    THEN {Trim(ReqText.chars)}
    ELSE {log[i].phrase : i \in {n \in 1..Len(log) : log[n].event = "Matched phrase"}}

\* C24: for a key the literal of the patient table lists more than once, the
\* value of its last occurrence is the one an offline lookup returns, by the
\* exact lookup and by the scan alike, never a different earlier value; the
\* table the lookups read holds every key once.  A patient's '痛' is answered
\* 'It hurts', not "It's painful".
C24_LastDuplicateWins ==
  OfflineAnswered("patient") =>
    /\ \A k \in KeyFound \cap RepeatedKeys :
         /\ res[1].translation = Str(LastValueOf(k))
         /\ \A v \in EarlierValuesOf(k) \ {LastValueOf(k)} : res[1].translation # Str(v)
    /\ Cardinality(KeysOf(ObjectEntries(mockChineseToEnglish)))
         = Len(ObjectEntries(mockChineseToEnglish))
    /\ Trim(ReqText.chars) = <<30171>> =>
         res[1].translation = Str(<<73, 116, 32, 104, 117, 114, 116, 115>>)

\* A patient's '痛', which the literal lists first with "It's painful" and
\* later with 'It hurts', was answered 'It hurts'.
C24_Witness ==
  /\ OfflineAnswered("patient")
  /\ ReqText = Str(<<30171>>)
  /\ <<30171>> \in RepeatedKeys
  /\ <<73, 116, 39, 115, 32, 112, 97, 105, 110, 102, 117, 108>> \in EarlierValuesOf(<<30171>>)
  /\ res[1].translation = Str(<<73, 116, 32, 104, 117, 114, 116, 115>>)

----------------------------------------------------------------------------
(* Startup and completion.                                                  *)

\* The process runs in live mode: the module body has run without exiting on
\* the environment and DEMO_MODE is false.
LiveProcess ==
  /\ Loaded
  /\ ~DEMO_MODE
  /\ Len(missingEnvVars(server, env)) = 0

\* The steps of a live startup, in order.
LiveStartup ==
  <<"OpenAI API connection verified", "Google Cloud TTS connection verified", "listening">>

\* The server accepts requests.
Serving == pc \in {"idle", "await_openai", "await_tts", "done"}

\* In live mode the steps completed are the first steps of the live startup;
\* the server serves only with all three completed; an exited process has
\* status 1, never listened and never took a request.
LiveStartupInOrder ==
  LiveProcess =>
    /\ Len(startup) <= 3
    /\ startup = SubSeq(LiveStartup, 1, Len(startup))
    /\ Serving <=> (startup = LiveStartup /\ exitCode = <<>>)
    /\ ~Serving => (req = NoRequest /\ res = <<>> /\ earlier = NoObservation)
    /\ pc = "exited" <=> exitCode = <<1>>
    /\ pc = "exited" => Len(startup) < 3
    /\ exitCode \in {<<>>, <<1>>}

\* A step of a live startup: the step awaited either succeeds and startup
\* moves on to the next one, or fails and the process exits with status 1
\* without completing a further step.
LiveStartupStep ==
  (LiveProcess /\ pc \in {"await_models_list", "await_list_voices", "await_listen"}) =>
    \/ /\ startup' = SubSeq(LiveStartup, 1, Len(startup) + 1)
       /\ exitCode' = <<>>
       /\ pc' = (IF pc = "await_models_list" THEN "await_list_voices"
                 ELSE IF pc = "await_list_voices" THEN "await_listen"
                 ELSE "idle")
    \/ /\ startup' = startup
       /\ exitCode' = <<1>>
       /\ pc' = "exited"

\* C25: startup ordering in live mode.  The server listens and takes requests
\* only after the model-API check and then the TTS check have succeeded; when
\* a check fails or app.listen fails (the port is bound), the process exits
\* with status 1, and after a failed check it has never listened nor taken a
\* request.
C25_StartupOrdering ==
  /\ []LiveStartupInOrder
  /\ [][LiveStartupStep]_vars

\* The live-only server passed the model-API check, failed the TTS check and
\* exited with status 1 without listening.
C25_Witness ==
  /\ server = LiveOnly
  /\ LiveProcess
  /\ pc = "exited"
  /\ startup = <<"OpenAI API connection verified">>
  /\ exitCode = <<1>>
  /\ req = NoRequest

\* The handler of an accepted request awaits an upstream call.
AwaitsUpstream == pc \in {"await_openai", "await_tts"}

\* The handler has sent a response, 200 or an error.
ResponseSent ==
  /\ pc = "done"
  /\ Len(res) >= 1
  /\ res[1].status = 200 \/ res[1].status >= 400

\* No candidate voice is called twice for one request.
EachCandidateAtMostOnce ==
  \A i, j \in 1..Len(ttsCalls) : ttsCalls[i].voice = ttsCalls[j].voice => i = j

\* A step of the cascade that stays in the cascade moves to a later candidate.
CascadeAdvances ==
  (pc = "await_tts" /\ pc' = "await_tts") =>
    /\ voiceIndex' > voiceIndex
    /\ voiceIndex' <= Len(voiceConfigs(Default(req.body.targetLanguage, "mandarin")).voiceOptions)

\* C26: run to completion.  When every upstream call eventually returns or
\* fails, a request whose handler awaits an upstream call eventually gets a
\* response (a request that makes no call is answered in the step that
\* accepts it); the voice cascade calls each candidate at most once and moves
\* only forward, so it cannot loop.
C26_RunToCompletion ==
  /\ AwaitsUpstream ~> ResponseSent
  /\ [](pc \in {"idle", "done"} \/ AwaitsUpstream)
  /\ []EachCandidateAtMostOnce
  /\ [][CascadeAdvances]_vars

\* A Mandarin synthesis request has been answered with an error after every
\* candidate voice was called once and failed.
C26_Witness ==
  /\ LiveSynthesis
  /\ ReqLanguage = "mandarin"
  /\ pc = "done"
  /\ Len(ttsCalls) = Len(Candidates)
  /\ \A i \in 1..Len(ttsCalls) : CallFailed(ttsCalls[i])
  /\ EachCandidateAtMostOnce
  /\ Len(res) = 1
  /\ res[1].status # 200

\* What the three checks, taken in the order empty-text, length, dialect,
\* decide for the request being handled: the first check that fails is the
\* error of the 400 response, and a request failing none passes validation.
FirstFailingCheckDecides(emptyText, tooLong, dialect, limit) ==
  /\ ~NonBlankString(ReqText) => RejectedWith(emptyText)
  /\ (NonBlankString(ReqText) /\ Len(ReqText.chars) > limit) => RejectedWith(tooLong)
  /\ (NonBlankString(ReqText) /\ Len(ReqText.chars) <= limit
        /\ ReqLanguage \notin {"mandarin", "cantonese"}) => RejectedWith(dialect)
  /\ (NonBlankString(ReqText) /\ Len(ReqText.chars) <= limit
        /\ ReqLanguage \in {"mandarin", "cantonese"}) => PassedValidation
  /\ RejectedWith(emptyText) => res[1].details # "Supported languages: mandarin, cantonese"

\* C27: the validation checks run in the order empty-text, length, dialect and
\* the first failing one alone decides the 400 response, on both endpoints and
\* in live and offline mode alike: a blank text gets the empty-text error
\* whatever its length, a non-blank text longer than the bound (counted on the
\* untrimmed text) gets the length error whatever the dialect, and the
\* dialect error is given only to a non-blank text within the bound.
C27_ValidationOrder ==
  /\ Handled("translate") =>
       FirstFailingCheckDecides("Valid text is required", "Text too long",
                                "Invalid target language", TranslateMaxLength)
  /\ Handled("audio") =>
       FirstFailingCheckDecides("Valid text is required for audio generation",
                                "Text too long for audio generation",
                                "Invalid target language for audio", AudioMaxLength)

\* In offline mode a synthesis request of 1001 spaces in an unsupported
\* dialect has been rejected with the empty-text error.
C27_Witness ==
  /\ DEMO_MODE
  /\ Handled("audio")
  /\ ReqText.type = "string"
  /\ Len(ReqText.chars) = AudioMaxLength + 1
  /\ ~NonBlankString(ReqText)
  /\ ReqLanguage = "english"
  /\ RejectedWith("Valid text is required for audio generation")

\* The handler has returned with exactly one response sent; before it
\* returns, while it awaits an upstream call, none has been sent.
OneResponsePerRequest ==
  /\ Answered => Len(res) = 1
  /\ AwaitsUpstream => res = <<>>
  /\ pc = "idle" => res = <<>>
  /\ Len(res) <= 1

\* Once a response has been sent for a request, nothing more is sent for it:
\* the responses change again only when the handler is left for the next
\* request.
NothingSentAfterResponse ==
  res # <<>> => (res' = res \/ (res' = <<>> /\ pc' = "idle"))

\* C28: every request to /api/translate or /api/audio results in exactly one
\* response, never none and never two, on every path: validation failure,
\* offline result, live success, success of a later voice candidate after
\* earlier ones failed, and the mapping of an error.
C28_ExactlyOneResponse ==
  /\ []OneResponsePerRequest
  /\ [][NothingSentAfterResponse]_vars

\* A Mandarin synthesis request answered once, with the audio of the third
\* candidate after the first two failed.
C28_Witness ==
  /\ LiveSynthesis
  /\ ReqLanguage = "mandarin"
  /\ pc = "done"
  /\ Len(ttsCalls) = 3
  /\ CallFailed(ttsCalls[1]) /\ CallFailed(ttsCalls[2])
  /\ ttsCalls[3].outcome = "audio"
  /\ Len(res) = 1
  /\ res[1].status = 200

----------------------------------------------------------------------------
(* The conversation client.                                                 *)

\* The messages of the history that are translations.
ConversationMessages ==
  {conversationHistory[i] : i \in {j \in 1..Len(conversationHistory) :
                                     conversationHistory[j].type = "conversation"}}

\* C29: client session isolation.  The history and the audio cache hold
\* nothing of a session that has been ended with End Session: every
\* translation in the history and every cached audio belongs to a message
\* whose translate request was sent in the present session, also when the
\* reply to a request sent before End Session arrives after it.
C29_SessionIsolation ==
  /\ \A msg \in ConversationMessages : origin[msg.id] = session
  /\ \A id \in DOMAIN audioCache : origin[id] = session

\* The audio requests the client has sent and not yet had an answer to.
AudioRequests == {request \in fetches : request.kind = "audio"}

\* C30: the audio requested for a message is in the language of the
\* message's translated text: the request for a doctor's message names the
\* dialect the message was translated into, the request for a patient's
\* message (translated into English) names no Chinese dialect, and what the
\* browser speaks for a message has the language of its translation.
C30_AudioInLanguageOfTranslation ==
  /\ \A request \in AudioRequests :
       \A msg \in ConversationMessages :
         msg.id = request.messageId =>
           /\ msg.speaker = "doctor" => request.body.targetLanguage = msg.translatedLanguage
           /\ msg.speaker = "patient" =>
                request.body.targetLanguage \notin {"mandarin", "cantonese"}
  /\ \A i \in 1..Len(utterance) :
       \A msg \in ConversationMessages :
         msg.id = utterance[i].messageId =>
           utterance[i].lang = UtteranceLang(msg.translatedLanguage)

====
